---- MODULE Spec2Model ----
(***************************************************************************)
(* Closed-loop motor speed controllers of the repository: the PI loops of  *)
(* 1motor.py and TeleOp/directionset.py, the encoder counters and their    *)
(* samplers, the quadrature decoders, and the PID controller of            *)
(* dual_pid_mdd20a.py.                                                     *)
(*                                                                         *)
(* Python floats are modelled by exact fixed-point integers:               *)
(*   speeds    in 1/169 RPM      (RpmScale; CPR = 676 = 4 * 169)           *)
(*   integral  in 1/1690 RPM*s   (IntScale = 10 * RpmScale)                *)
(*   output    in 1/16900 %      (OutScale = 10 * IntScale)                *)
(* so that every product and quotient the loops compute on the modelled    *)
(* inputs is an integer.                                                   *)
(***************************************************************************)
EXTENDS Integers, Sequences, FiniteSets, TLC

VARIABLES
    \* ---- 1motor.py / TeleOp/directionset.py, whole-handler granularity
    variant,        \* which of the two scripts runs
    target_rpm,     \* setpoint, RPM
    encoder_count,  \* _encoder_count
    rpm,            \* _rpm / current_rpm, 1/169 RPM
    integral,       \* _integral, 1/1690 RPM*s
    duty,           \* _duty, 1/16900 %
    cycles,         \* control cycles executed
    last,           \* what the last control cycle computed
    satBefore,      \* the cycle before the last had error > 0 and duty = MAX_DUTY
    pwm,            \* dutycycle last given to pi.hardware_PWM, 0..1000000
    \* ---- 1motor.py encoder_callback / rpm_loop, statement granularity
    lk_count,       \* _encoder_count
    lk_lock,        \* holder of _encoder_lock: "free", "cb" or "rpm"
    cb_pc,          \* position of the pigpio callback thread
    cb_level,       \* level argument of the callback
    cb_b,           \* b = pi.read(ENCB)
    cb_tmp,         \* value loaded by _encoder_count += 1 / -= 1
    rpm_pc,         \* position of rpm_loop
    rpm_local,      \* count
    lk_applied,     \* net sum of the +1/-1 the callbacks have stored
    lk_sampled,     \* sum of the counts rpm_loop has taken
    lk_edges,       \* callbacks started
    lk_samples,     \* samples completed
    lk_rpm,         \* _rpm / current_rpm, 1/169 RPM
    lk_last,        \* the dt the last sample measured and _rpm before it
    \* ---- TeleOp/1motor.py encoder_cb / rpm_task, statement granularity
    rc_count,       \* encoder_count
    rc_rpm,         \* rpm, RPM
    ecb_pc,         \* position of the pigpio callback thread
    ecb_a,          \* a = pi.read(ENCA)
    ecb_b,          \* b = pi.read(ENCB)
    ecb_tmp,        \* value loaded by encoder_count += 1 / -= 1
    task_pc,        \* position of rpm_task
    task_dt,        \* dt, ms
    task_count,     \* count
    rc_applied,     \* net sum of the +1/-1 encoder_cb has stored
    rc_sampled,     \* sum of the counts rpm_task has taken
    rc_edges,       \* callbacks started
    rc_samples,     \* samples started
    rc_rpm_before,  \* rpm before the last speed computation
    \* ---- quadrature signal and the decoders attached to it
    q_phase,        \* 0..3: (A,B) = (0,0), (1,0), (1,1), (0,1)
    q_path,         \* the motion so far: "F" / "R" per channel transition
    q_aedges,       \* transitions of channel A so far
    q_last,         \* the last transition and what encoder_callback_A added
    cntA,           \* encoder_count of PID_control.py / odometry.py
    cnt1,           \* _encoder_count of 1motor.py
    cnt4,           \* encoder_count of TeleOp/1motor.py
    \* ---- dual_pid_mdd20a.py PIDController
    wall,           \* time.time(), ms since start
    pid_integral,   \* self.integral, RPM*ms
    pid_prev_error, \* self.prev_error, RPM
    pid_prev_time,  \* self.prev_time: <<>> is None, <<t>> is t
    pid_raised,     \* update raised ZeroDivisionError
    pid_last,       \* what the last update saw and computed
    pid_calls,      \* update calls so far
    pid_steps,      \* clock steps so far
    \* ---- PID_control.py control_loop, PID stage and set_motor
    pc_e_integral,  \* e_integral, 1/10 RPM*s
    pc_e_prev,      \* e_prev, RPM
    pc_direction,   \* direction written to DIR_PIN
    pc_pwm_val,     \* pwm_val
    pc_duty_cycle,  \* dutycycle given to pi.hardware_PWM
    pc_u,           \* u, 1/100
    pc_cycles,      \* control cycles executed
    \* ---- dual_pid_mdd20a.py set_motor
    sm_command,     \* command argument of the last call, %
    sm_dir,         \* level last written to dir_pin
    sm_duty,        \* duty last given to ChangeDutyCycle, %
    sm_called,      \* set_motor has been called
    \* ---- TeleOp/1motor.py control_task and the KeyboardInterrupt handler
    st_running,     \* running
    st_main_pc,     \* position of the main thread
    st_ctl_pc,      \* position of control_task
    st_duty,        \* int(duty * 10000) computed by control_task
    st_pwm,         \* dutycycle last received by the PWM hardware
    st_dir,         \* level of DIR_PIN
    st_zeroed,      \* the handler has commanded zero duty
    st_connected,   \* pi.stop() has not been called
    st_iters,       \* control cycles started
    \* ---- 1motor.py main thread (user_input_loop, finally) and control_loop, statement granularity
    mn_running,     \* running
    mn_target,      \* target_rpm, RPM
    mn_main_pc,     \* position of the main thread
    mn_line,        \* parts of the line input() returned
    mn_ctl_pc,      \* position of control_loop
    mn_start_target,\* target_rpm when control_loop started
    mn_assigned,    \* the values target_rpm has been given, in order
    mn_err,         \* target the last error computation used, and how many values had been assigned
    mn_sigint,      \* SIGINT has been delivered
    mn_lines,       \* lines the operator has entered
    mn_iters,       \* control cycles started
    mn_pwm,         \* dutycycle last given to pi.hardware_PWM
    mn_dir,         \* level of DIR_PIN
    \* ---- counts_to_rpm of dual_pid_mdd20a.py and the conversion of rpm_loop of 1motor.py, as functions
    cv_fn,          \* which conversion ran last
    cv_counts,      \* tick count given
    cv_dt,          \* dt given, ms
    cv_result,      \* speed it produced, 1/169 RPM
    \* ---- MotorController (rpi_arduino_motor_control.py, motorControl/controller.py) used in a with block
    ar_class,       \* which MotorController class the program uses
    ar_pc,          \* position of the program: start, body, left
    ar_arduino,     \* self.arduino: "None", "open" or "closed"
    ar_log,         \* what the serial port has been given, in order: messages and "close"
    ar_raised,      \* the with block was left through an exception
    ar_calls,       \* method calls made on the controller
    \* ---- Motor of motor_gui_control.py / z_module.py / zdirection_control.py: ramp threads beside the GUI thread
    rm_current_speed,\* self.current_speed, 1/SpeedScale %
    rm_target_speed,\* self.target_speed, 1/SpeedScale %
    rm_stop_requested,\* self.stop_requested
    rm_duty,        \* duty last given to self.pwm.ChangeDutyCycle, 1/SpeedScale %
    rm_direction,   \* self.direction
    rm_ramp_thread, \* self.ramp_thread: 0 is None, else the number of the thread
    rm_th,          \* the ramp threads: position and locals of each
    rm_main,        \* position of the GUI thread
    rm_arg,         \* arguments of the ramp_to_speed call in progress
    rm_calls,       \* ramp_to_speed calls made
    rm_stops,       \* stop_immediate calls made
    rm_stopped,     \* stop_immediate has returned and ramp_to_speed was not called since
    rm_stale_write, \* a thread older than self.ramp_thread wrote current_speed or the duty
    rm_in_range,    \* every duty written lay between its ramp's start and target
    \* ---- motor_keyboard_control.py: key handlers of DualMotorController beside the ramp threads of its two motors
    kb_active_keys, \* self.active_keys
    kb_m,           \* the two Motor objects: attributes, duty and ramp thread of each
    kb_events,      \* key events handled
    kb_stop_all,    \* the last key event released the last movement key (stop_all was called)
    \* ---- src/controller.py: ZAxisController and the carriage it moves
    zx_moving,      \* self.moving
    zx_th,          \* the _execute_move threads: position and arguments of each
    zx_started,     \* _execute_move threads started
    zx_other,       \* a manual move_distance call was made or a motor call raised
    zx_height,      \* height of the carriage above the bottom, in cm
    zx_level,       \* level of the last accepted move_to_level call, 0 before the first
    zx_busy_call,   \* a call was turned away because a move was running
    zx_calls,       \* move_to_level and move_distance calls made
    \* ---- the two tick-accounting conventions fed by the same edges and sampled at the same instants
    tk_encoder_count,\* _encoder_count of 1motor.py, reset by every sample
    tk_counts,      \* the count of every rpm_loop window of 1motor.py
    tk_running_count,\* encoder_count of PID_control.py, never reset
    tk_prev_encoder_count,\* prev_encoder_count of PID_control.py
    tk_current_count,\* current_count of the control_loop iteration under way
    tk_pc,          \* position of PID_control.py control_loop
    tk_deltas,      \* delta_count of every control_loop window of PID_control.py
    tk_net,         \* net number of ticks counted by the callbacks
    tk_edges,       \* edges delivered
    \* ---- src/1motor.py: rpm_loop and control_loop as two free-running threads sharing _rpm
    fr_rpm,         \* number of the rpm_loop sample held in _rpm, 0 for the initial 0.0
    fr_produced,    \* samples rpm_loop has stored in _rpm
    fr_rl_pc,       \* position of rpm_loop
    fr_cl_pc,       \* position of control_loop
    fr_used,        \* sample number the last control_loop iteration read
    fr_prev_used,   \* sample number the iteration before it read
    fr_cycles,      \* control_loop iterations that have read _rpm
    \* ---- motorControl/controller.py: MotorController.setBothMotors
    bm_pc,          \* position in setBothMotors
    bm_call,        \* arguments of the call, whether the port is connected, time since start in ms
    bm_last,        \* the last command written to the port
    \* ---- qr_motor_control.py: the stage loop of main; positions in 1/10 cm
    qr_pc,          \* position in main: input, stages, done or exit
    qr,             \* positions, current_position, signed sum of the distances given to z_axis, counts of stages, moves and skipped stages
    \* ---- z_gui.py: ZAxisGUI.move_to_position; positions in 1/10 cm
    zg,             \* current_position, text of the position entry, signed sum of the distances z_axis carried out, requests made
    zg_frames       \* the move_to_position calls under way, innermost last: position, distance, direction, target

piVars == <<variant, target_rpm, encoder_count, rpm, integral, duty, cycles, last, satBefore, pwm>>
lockVars == <<lk_count, lk_lock, cb_pc, cb_level, cb_b, cb_tmp, rpm_pc, rpm_local,
              lk_applied, lk_sampled, lk_edges, lk_samples, lk_rpm, lk_last>>

raceVars == <<rc_count, rc_rpm, ecb_pc, ecb_a, ecb_b, ecb_tmp, task_pc, task_dt, task_count,
              rc_applied, rc_sampled, rc_edges, rc_samples, rc_rpm_before>>
quadVars == <<q_phase, q_path, q_aedges, q_last, cntA, cnt1, cnt4>>

pidVars == <<wall, pid_integral, pid_prev_error, pid_prev_time, pid_raised, pid_last,
             pid_calls, pid_steps>>

pcVars == <<pc_e_integral, pc_e_prev, pc_direction, pc_pwm_val, pc_duty_cycle, pc_u, pc_cycles>>

smVars == <<sm_command, sm_dir, sm_duty, sm_called>>

stVars == <<st_running, st_main_pc, st_ctl_pc, st_duty, st_pwm, st_dir, st_zeroed, st_connected, st_iters>>

mnVars == <<mn_running, mn_target, mn_main_pc, mn_line, mn_ctl_pc, mn_start_target, mn_assigned, mn_err, mn_sigint, mn_lines, mn_iters, mn_pwm, mn_dir>>

cvVars == <<cv_fn, cv_counts, cv_dt, cv_result>>

arVars == <<ar_class, ar_pc, ar_arduino, ar_log, ar_raised, ar_calls>>

rmVars == <<rm_current_speed, rm_target_speed, rm_stop_requested, rm_duty, rm_direction, rm_ramp_thread, rm_th, rm_main, rm_arg, rm_calls, rm_stops, rm_stopped, rm_stale_write, rm_in_range>>

kbVars == <<kb_active_keys, kb_m, kb_events, kb_stop_all>>

zxVars == <<zx_moving, zx_th, zx_started, zx_other, zx_height, zx_level, zx_busy_call, zx_calls>>

tkVars == <<tk_encoder_count, tk_counts, tk_running_count, tk_prev_encoder_count, tk_current_count, tk_pc, tk_deltas, tk_net, tk_edges>>

frVars == <<fr_rpm, fr_produced, fr_rl_pc, fr_cl_pc, fr_used, fr_prev_used, fr_cycles>>

bmVars == <<bm_pc, bm_call, bm_last>>

qrVars == <<qr_pc, qr>>

zgVars == <<zg, zg_frames>>

vars == <<piVars, lockVars, raceVars, quadVars, pidVars, pcVars, smVars,
          stVars, mnVars, cvVars, arVars, rmVars, kbVars, zxVars, tkVars,
          frVars, bmVars, qrVars, zgVars>>

OtherThanPI == <<lockVars, raceVars, quadVars, pidVars, pcVars, smVars,
                 stVars, mnVars, cvVars, arVars, rmVars, kbVars, zxVars,
                 tkVars, frVars, bmVars, qrVars, zgVars>>
OtherThanLock == <<piVars, raceVars, quadVars, pidVars, pcVars, smVars,
                   stVars, mnVars, cvVars, arVars, rmVars, kbVars, zxVars,
                   tkVars, frVars, bmVars, qrVars, zgVars>>
OtherThanRace == <<piVars, lockVars, quadVars, pidVars, pcVars, smVars,
                   stVars, mnVars, cvVars, arVars, rmVars, kbVars, zxVars,
                   tkVars, frVars, bmVars, qrVars, zgVars>>
OtherThanQuad == <<piVars, lockVars, raceVars, pidVars, pcVars, smVars,
                   stVars, mnVars, cvVars, arVars, rmVars, kbVars, zxVars,
                   tkVars, frVars, bmVars, qrVars, zgVars>>
OtherThanPid == <<piVars, lockVars, raceVars, quadVars, pcVars, smVars,
                  stVars, mnVars, cvVars, arVars, rmVars, kbVars, zxVars,
                  tkVars, frVars, bmVars, qrVars, zgVars>>
OtherThanPc == <<piVars, lockVars, raceVars, quadVars, pidVars, smVars,
                 stVars, mnVars, cvVars, arVars, rmVars, kbVars, zxVars,
                 tkVars, frVars, bmVars, qrVars, zgVars>>
OtherThanSm == <<piVars, lockVars, raceVars, quadVars, pidVars, pcVars,
                 stVars, mnVars, cvVars, arVars, rmVars, kbVars, zxVars,
                 tkVars, frVars, bmVars, qrVars, zgVars>>
OtherThanSt == <<piVars, lockVars, raceVars, quadVars, pidVars, pcVars,
                 smVars, mnVars, cvVars, arVars, rmVars, kbVars, zxVars,
                 tkVars, frVars, bmVars, qrVars, zgVars>>
OtherThanMn == <<piVars, lockVars, raceVars, quadVars, pidVars, pcVars,
                 smVars, stVars, cvVars, arVars, rmVars, kbVars, zxVars,
                 tkVars, frVars, bmVars, qrVars, zgVars>>
OtherThanCv == <<piVars, lockVars, raceVars, quadVars, pidVars, pcVars,
                 smVars, stVars, mnVars, arVars, rmVars, kbVars, zxVars,
                 tkVars, frVars, bmVars, qrVars, zgVars>>
OtherThanAr == <<piVars, lockVars, raceVars, quadVars, pidVars, pcVars,
                 smVars, stVars, mnVars, cvVars, rmVars, kbVars, zxVars,
                 tkVars, frVars, bmVars, qrVars, zgVars>>
OtherThanRm == <<piVars, lockVars, raceVars, quadVars, pidVars, pcVars,
                 smVars, stVars, mnVars, cvVars, arVars, kbVars, zxVars,
                 tkVars, frVars, bmVars, qrVars, zgVars>>
OtherThanKb == <<piVars, lockVars, raceVars, quadVars, pidVars, pcVars,
                 smVars, stVars, mnVars, cvVars, arVars, rmVars, zxVars,
                 tkVars, frVars, bmVars, qrVars, zgVars>>
OtherThanZx == <<piVars, lockVars, raceVars, quadVars, pidVars, pcVars,
                 smVars, stVars, mnVars, cvVars, arVars, rmVars, kbVars,
                 tkVars, frVars, bmVars, qrVars, zgVars>>
OtherThanTk == <<piVars, lockVars, raceVars, quadVars, pidVars, pcVars,
                 smVars, stVars, mnVars, cvVars, arVars, rmVars, kbVars,
                 zxVars, frVars, bmVars, qrVars, zgVars>>
OtherThanFr == <<piVars, lockVars, raceVars, quadVars, pidVars, pcVars,
                 smVars, stVars, mnVars, cvVars, arVars, rmVars, kbVars,
                 zxVars, tkVars, bmVars, qrVars, zgVars>>
OtherThanBm == <<piVars, lockVars, raceVars, quadVars, pidVars, pcVars,
                 smVars, stVars, mnVars, cvVars, arVars, rmVars, kbVars,
                 zxVars, tkVars, frVars, qrVars, zgVars>>
OtherThanQr == <<piVars, lockVars, raceVars, quadVars, pidVars, pcVars,
                 smVars, stVars, mnVars, cvVars, arVars, rmVars, kbVars,
                 zxVars, tkVars, frVars, bmVars, zgVars>>
OtherThanZg == <<piVars, lockVars, raceVars, quadVars, pidVars, pcVars,
                 smVars, stVars, mnVars, cvVars, arVars, rmVars, kbVars,
                 zxVars, tkVars, frVars, bmVars, qrVars>>

Abs(x) == IF x < 0 THEN -x ELSE x

(***************************************************************************)
(* Bounds of the model.                                                    *)
(***************************************************************************)
MaxCount == 1        \* |_encoder_count| accumulated between two samples
MaxCycles == 3       \* control cycles explored
MaxPcCycles == 3     \* control cycles of PID_control.py explored
MaxCmd == 120        \* |command| given to set_motor, %
MaxStopIters == 3    \* control cycles of TeleOp/1motor.py explored around shutdown
MaxLines == 3        \* lines the operator enters
MaxMainIters == 3    \* control cycles of 1motor.py explored beside the command loop
MaxTicks == 5        \* |ticks| given to the speed conversions
MaxArCalls == 3      \* method calls on a MotorController
MaxRampSteps == 3    \* steps of a ramp explored (the scripts take 50)
MaxRampCalls == 2    \* ramp_to_speed calls on one motor
MaxStops == 1        \* stop_immediate calls on one motor
MaxKeyEvents == 4    \* key presses and releases handled
MaxLevelCalls == 4   \* move_to_level calls
MaxTkEdges == 5      \* edges fed to both conventions
MaxWindows == 3      \* sampling windows of both conventions
MaxFrSamples == 4    \* rpm_loop iterations beside control_loop
MaxFrCycles == 4     \* control_loop iterations beside rpm_loop
MaxStages == 3       \* stage positions in the list
MaxRequests == 3     \* clicks on the Move button
MaxNesting == 2      \* move_to_position calls under way at once

(***************************************************************************)
(* Program constants.                                                      *)
(***************************************************************************)
RpmScale == 676 \div 4
IntScale == 10 * RpmScale
OutScale == 10 * IntScale
PULSES_PER_REV == 20
CPR == 676
SAMPLE_INTERVAL_MS == 100
MAX_DUTY == 100
MIN_DUTY == 0
max_int == 1000

Variants == {"1motor", "directionset"}
\* Kp, Ki in tenths
Kp10(v) == IF v = "1motor" THEN 6 ELSE 12
Ki10(v) == IF v = "1motor" THEN 2 ELSE 4

\* setpoints the operator types ('s <rpm>'); 30 is the default
Targets == {-6000, 0, 30, 6000}
\* measured time between two samples, ms (time.time() may stall or step back)
DtSet == {-100, 0, 100, 200}

(***************************************************************************)
(* Encoder callbacks (under _encoder_lock, one whole callback per step).   *)
(***************************************************************************)
\* 1motor.py: both edges of ENCA, direction by the level of ENCB
\* directionset.py: rising edges of ENCA only, always +1
CallbackDelta(v, level, b) ==
    IF v = "1motor"
    THEN (IF b = 0 THEN 1 ELSE -1)
    ELSE (IF level = 1 THEN 1 ELSE 0)

encoder_callback(level, b) ==
    /\ Abs(encoder_count + CallbackDelta(variant, level, b)) <= MaxCount
    /\ encoder_count' = encoder_count + CallbackDelta(variant, level, b)
    /\ UNCHANGED <<variant, target_rpm, rpm, integral, duty, cycles, last, satBefore, pwm>>
    /\ UNCHANGED OtherThanPI

(***************************************************************************)
(* rpm_loop: read-and-reset the counter, convert to RPM.                   *)
(***************************************************************************)
\* 1motor.py: revs = (count / PULSES_PER_REV) / dt; _rpm = revs * 60
\* directionset.py: rpm = (count / CPR / SAMPLE_INTERVAL) * 60
CountsToRpm(v, count, dt) ==
    IF v = "1motor"
    THEN (count * 60 * 1000 * RpmScale) \div (PULSES_PER_REV * dt)
    ELSE (count * 60 * 1000 * RpmScale) \div (CPR * SAMPLE_INTERVAL_MS)

\* mutant: only a negative interval is skipped
SkipSampleNegativeOnly(v, dt) == v = "1motor" /\ dt < 0

\* 1motor.py: if dt <= 0: continue (directionset.py measures no dt)
SkipSample(v, dt) == v = "1motor" /\ dt <= 0

\* the divisor of the speed computation
RpmDivisor(v, dt) == IF v = "1motor" THEN PULSES_PER_REV * dt ELSE CPR * SAMPLE_INTERVAL_MS

rpm_loop(dt) ==
    /\ encoder_count' = 0
    /\ rpm' = IF SkipSample(variant, dt)
              THEN rpm
              ELSE CountsToRpm(variant, encoder_count, dt)
    /\ UNCHANGED <<variant, target_rpm, integral, duty, cycles, last, satBefore, pwm>>
    /\ UNCHANGED OtherThanPI

(***************************************************************************)
(* control_loop: one PI cycle.                                             *)
(***************************************************************************)
Error(t, r) == t * RpmScale - r

IntegralLimit == max_int * IntScale

\* proposed integral: _integral += error * SAMPLE_INTERVAL
Integrate(i, e) == i + e

\* mutant: the lower branch of the clamp forgotten
ClampIntegralUpperOnly(i) ==
    IF i > IntegralLimit THEN IntegralLimit ELSE i

\* anti-windup: clamp integral
ClampIntegral(i) ==
    IF i > IntegralLimit THEN IntegralLimit
    ELSE IF i < -IntegralLimit THEN -IntegralLimit
    ELSE i

\* out = Kp * error + Ki * _integral
PIOutput(v, e, i) == Kp10(v) * e * 10 + Ki10(v) * i

\* mutant: the lower branch of the clamp forgotten
ClampDutyUpperOnly(out) ==
    IF out > MAX_DUTY * OutScale THEN MAX_DUTY * OutScale ELSE out

ClampDuty(out) ==
    IF out > MAX_DUTY * OutScale THEN MAX_DUTY * OutScale
    ELSE IF out < MIN_DUTY * OutScale THEN MIN_DUTY * OutScale
    ELSE out

\* set_pwm_duty: clamp to 0..100, duty_int = int(duty_percent * 10000).
\* d is in 1/OutScale %, and 10000 / OutScale = 100 / RpmScale.
set_pwm_duty(d) ==
    LET p == IF d < 0 THEN 0 ELSE IF d > 100 * OutScale THEN 100 * OutScale ELSE d
    IN (p * 100) \div RpmScale

control_loop ==
    /\ cycles < MaxCycles
    /\ LET e == Error(target_rpm, rpm)
           i == ClampIntegral(Integrate(integral, e))
           out == PIOutput(variant, e, i)
       IN /\ integral' = i
          /\ duty' = ClampDuty(out)
          /\ pwm' = set_pwm_duty(ClampDuty(out))
          /\ last' = [error |-> e, before |-> integral, used |-> i, out |-> out,
                      dutyBefore |-> duty]
          /\ satBefore' = (cycles > 0 /\ last.error > 0 /\ duty = MAX_DUTY * OutScale)
    /\ cycles' = cycles + 1
    /\ UNCHANGED <<variant, target_rpm, encoder_count, rpm>>
    /\ UNCHANGED OtherThanPI

\* user_input_loop, command 's <rpm>'
set_target(t) ==
    /\ target_rpm' = t
    /\ UNCHANGED <<variant, encoder_count, rpm, integral, duty, cycles, last, satBefore, pwm>>
    /\ UNCHANGED OtherThanPI

\* setup(): globals at their initial values, PWM started with duty 0
PIStart ==
    /\ target_rpm = 30
    /\ encoder_count = 0
    /\ rpm = 0
    /\ integral = 0
    /\ duty = 0
    /\ cycles = 0
    /\ last = [error |-> 0, before |-> 0, used |-> 0, out |-> 0, dutyBefore |-> 0]
    /\ satBefore = FALSE
    /\ pwm = 0

PIInit == variant \in Variants /\ PIStart

PINext ==
    \/ \E level \in {0, 1}, b \in {0, 1} : encoder_callback(level, b)
    \/ \E dt \in DtSet : rpm_loop(dt)
    \/ control_loop
    \/ \E t \in Targets : set_target(t)

(***************************************************************************)
(* 1motor.py and directionset.py: encoder_callback and rpm_loop, one        *)
(* statement per step.  pigpio delivers callbacks on one thread, so        *)
(* callbacks do not overlap each other; they do interleave with rpm_loop.  *)
(* dual_pid_mdd20a.py has the same pattern with two counters under one     *)
(* lock (enc1_callback / enc2_callback, main).                             *)
(***************************************************************************)
MaxEdges == 3        \* encoder callbacks explored
MaxSamples == 2      \* rpm_loop samples explored

\* mutant: the with-statement dropped, nothing waits
CanAcquireAlways(holder) == TRUE

\* with _encoder_lock: blocks until the lock is free
CanAcquire(holder) == holder = "free"

\* mutant: the statements after the with-block moved into it, the lock kept
LockAfterBlockKept(holder) == holder

\* leaving the with-block releases the lock
LockAfterBlock(holder) == "free"

LockFrame == UNCHANGED OtherThanLock

\* pigpio invokes encoder_callback(gpio, level, tick)
\* 1motor.py: b = pi.read(ENCB); directionset.py: if level == 1
cb_enter(level, b) ==
    /\ cb_pc = "idle"
    /\ lk_edges < MaxEdges
    /\ cb_level' = level
    /\ cb_b' = b
    /\ cb_pc' = IF variant = "directionset" /\ level # 1 THEN "idle" ELSE "acquire"
    /\ lk_edges' = lk_edges + 1
    /\ UNCHANGED <<lk_count, lk_lock, cb_tmp, rpm_pc, rpm_local, lk_applied, lk_sampled, lk_samples, lk_rpm, lk_last>>
    /\ LockFrame

cb_acquire ==
    /\ cb_pc = "acquire"
    /\ CanAcquire(lk_lock)
    /\ lk_lock' = "cb"
    /\ cb_pc' = "load"
    /\ UNCHANGED <<lk_count, cb_level, cb_b, cb_tmp, rpm_pc, rpm_local, lk_applied, lk_sampled, lk_edges, lk_samples, lk_rpm, lk_last>>
    /\ LockFrame

\* _encoder_count += 1 / -= 1: load ...
cb_load ==
    /\ cb_pc = "load"
    /\ cb_tmp' = lk_count
    /\ cb_pc' = "store"
    /\ UNCHANGED <<lk_count, lk_lock, cb_level, cb_b, rpm_pc, rpm_local, lk_applied, lk_sampled, lk_edges, lk_samples, lk_rpm, lk_last>>
    /\ LockFrame

\* ... and store
cb_store ==
    /\ cb_pc = "store"
    /\ LET d == CallbackDelta(variant, cb_level, cb_b)
       IN /\ lk_count' = cb_tmp + d
          /\ lk_applied' = lk_applied + d
    /\ cb_pc' = "release"
    /\ UNCHANGED <<lk_lock, cb_level, cb_b, cb_tmp, rpm_pc, rpm_local, lk_sampled, lk_edges, lk_samples, lk_rpm, lk_last>>
    /\ LockFrame

cb_release ==
    /\ cb_pc = "release"
    /\ lk_lock' = LockAfterBlock(lk_lock)
    /\ cb_pc' = "idle"
    /\ UNCHANGED <<lk_count, cb_level, cb_b, cb_tmp, rpm_pc, rpm_local, lk_applied, lk_sampled, lk_edges, lk_samples, lk_rpm, lk_last>>
    /\ LockFrame

\* time.sleep(SAMPLE_INTERVAL) is over; with _encoder_lock:
rpm_acquire ==
    /\ rpm_pc = "sleep"
    /\ lk_samples < MaxSamples
    /\ CanAcquire(lk_lock)
    /\ lk_lock' = "rpm"
    /\ rpm_pc' = "read"
    /\ UNCHANGED <<lk_count, cb_pc, cb_level, cb_b, cb_tmp, rpm_local, lk_applied, lk_sampled, lk_edges, lk_samples, lk_rpm, lk_last>>
    /\ LockFrame

\* count = _encoder_count
rpm_read ==
    /\ rpm_pc = "read"
    /\ rpm_local' = lk_count
    /\ rpm_pc' = "reset"
    /\ UNCHANGED <<lk_count, lk_lock, cb_pc, cb_level, cb_b, cb_tmp, lk_applied, lk_sampled, lk_edges, lk_samples, lk_rpm, lk_last>>
    /\ LockFrame

\* _encoder_count = 0
rpm_reset ==
    /\ rpm_pc = "reset"
    /\ lk_count' = 0
    /\ lk_sampled' = lk_sampled + rpm_local
    /\ rpm_pc' = "release"
    /\ UNCHANGED <<lk_lock, cb_pc, cb_level, cb_b, cb_tmp, rpm_local, lk_applied, lk_edges, lk_samples, lk_rpm, lk_last>>
    /\ LockFrame

rpm_release ==
    /\ rpm_pc = "release"
    /\ lk_lock' = LockAfterBlock(lk_lock)
    /\ rpm_pc' = "compute"
    /\ UNCHANGED <<lk_count, cb_pc, cb_level, cb_b, cb_tmp, rpm_local, lk_applied, lk_sampled, lk_edges, lk_samples, lk_rpm, lk_last>>
    /\ LockFrame

\* now = time.time(); dt = now - _last_sample_time; if dt <= 0: continue
\* revs = (count / PULSES_PER_REV) / dt; _rpm = revs * 60: outside the lock
rpm_compute(dt) ==
    /\ rpm_pc = "compute"
    /\ IF SkipSample(variant, dt)
       THEN /\ rpm_pc' = "sleep"
            /\ UNCHANGED lk_rpm
       ELSE IF RpmDivisor(variant, dt) = 0
       THEN \* ZeroDivisionError ends the thread
            /\ rpm_pc' = "dead"
            /\ UNCHANGED lk_rpm
       ELSE /\ rpm_pc' = "sleep"
            /\ lk_rpm' = CountsToRpm(variant, rpm_local, dt)
    /\ lk_last' = [dt |-> dt, before |-> lk_rpm]
    /\ lk_samples' = lk_samples + 1
    /\ UNCHANGED <<lk_count, lk_lock, cb_pc, cb_level, cb_b, cb_tmp, rpm_local, lk_applied, lk_sampled, lk_edges>>
    /\ LockFrame

LockInit ==
    /\ lk_count = 0
    /\ lk_lock = "free"
    /\ cb_pc = "idle"
    /\ cb_level = 0
    /\ cb_b = 0
    /\ cb_tmp = 0
    /\ rpm_pc = "sleep"
    /\ rpm_local = 0
    /\ lk_applied = 0
    /\ lk_sampled = 0
    /\ lk_edges = 0
    /\ lk_samples = 0
    /\ lk_rpm = 0
    /\ lk_last = [dt |-> 0, before |-> 0]

LockNext ==
    \/ \E level \in {0, 1}, b \in {0, 1} : cb_enter(level, b)
    \/ cb_acquire
    \/ cb_load
    \/ cb_store
    \/ cb_release
    \/ rpm_acquire
    \/ rpm_read
    \/ rpm_reset
    \/ rpm_release
    \/ \E dt \in DtSet : rpm_compute(dt)

(***************************************************************************)
(* TeleOp/1motor.py: encoder_cb and rpm_task, one statement per step.      *)
(* There is no lock: encoder_count += 1 is a load and a store, and         *)
(* rpm_task reads encoder_count and then writes 0.                         *)
(***************************************************************************)
PPR == 20

\* if a == b: encoder_count += 1 else: encoder_count -= 1
encoder_cb_delta(a, b) == IF a = b THEN 1 ELSE -1

RaceFrame == UNCHANGED OtherThanRace

\* pigpio invokes encoder_cb; a = pi.read(ENCA)
ecb_read_a(a) ==
    /\ ecb_pc = "idle"
    /\ rc_edges < MaxEdges
    /\ ecb_a' = a
    /\ ecb_pc' = "read_b"
    /\ rc_edges' = rc_edges + 1
    /\ UNCHANGED <<rc_count, rc_rpm, ecb_b, ecb_tmp, task_pc, task_dt, task_count,
                   rc_applied, rc_sampled, rc_samples, rc_rpm_before>>
    /\ RaceFrame

\* b = pi.read(ENCB)
ecb_read_b(b) ==
    /\ ecb_pc = "read_b"
    /\ ecb_b' = b
    /\ ecb_pc' = "load"
    /\ UNCHANGED <<rc_count, rc_rpm, ecb_a, ecb_tmp, task_pc, task_dt, task_count,
                   rc_applied, rc_sampled, rc_edges, rc_samples, rc_rpm_before>>
    /\ RaceFrame

ecb_load ==
    /\ ecb_pc = "load"
    /\ ecb_tmp' = rc_count
    /\ ecb_pc' = "store"
    /\ UNCHANGED <<rc_count, rc_rpm, ecb_a, ecb_b, task_pc, task_dt, task_count,
                   rc_applied, rc_sampled, rc_edges, rc_samples, rc_rpm_before>>
    /\ RaceFrame

ecb_store ==
    /\ ecb_pc = "store"
    /\ rc_count' = ecb_tmp + encoder_cb_delta(ecb_a, ecb_b)
    /\ rc_applied' = rc_applied + encoder_cb_delta(ecb_a, ecb_b)
    /\ ecb_pc' = "idle"
    /\ UNCHANGED <<rc_rpm, ecb_a, ecb_b, ecb_tmp, task_pc, task_dt, task_count,
                   rc_sampled, rc_edges, rc_samples, rc_rpm_before>>
    /\ RaceFrame

\* time.sleep(0.1) is over; now = time.time(); dt = now - last; last = now
task_time(dt) ==
    /\ task_pc = "sleep"
    /\ rc_samples < MaxSamples
    /\ task_dt' = dt
    /\ task_pc' = "read"
    /\ rc_samples' = rc_samples + 1
    /\ UNCHANGED <<rc_count, rc_rpm, ecb_pc, ecb_a, ecb_b, ecb_tmp, task_count,
                   rc_applied, rc_sampled, rc_edges, rc_rpm_before>>
    /\ RaceFrame

\* count = encoder_count
task_read ==
    /\ task_pc = "read"
    /\ task_count' = rc_count
    /\ task_pc' = "reset"
    /\ UNCHANGED <<rc_count, rc_rpm, ecb_pc, ecb_a, ecb_b, ecb_tmp, task_dt,
                   rc_applied, rc_sampled, rc_edges, rc_samples, rc_rpm_before>>
    /\ RaceFrame

\* encoder_count = 0
task_reset ==
    /\ task_pc = "reset"
    /\ rc_count' = 0
    /\ rc_sampled' = rc_sampled + task_count
    /\ task_pc' = "compute"
    /\ UNCHANGED <<rc_rpm, ecb_pc, ecb_a, ecb_b, ecb_tmp, task_dt, task_count,
                   rc_applied, rc_edges, rc_samples, rc_rpm_before>>
    /\ RaceFrame

\* revs = (count / PPR) / dt; rpm = revs * 60
\* dt = 0 raises ZeroDivisionError, which ends the thread
task_compute ==
    /\ task_pc = "compute"
    /\ IF task_dt = 0
       THEN /\ task_pc' = "dead"
            /\ UNCHANGED rc_rpm
       ELSE /\ task_pc' = "sleep"
            /\ rc_rpm' = (task_count * 60 * 1000) \div (PPR * task_dt)
    /\ rc_rpm_before' = rc_rpm
    /\ UNCHANGED <<rc_count, ecb_pc, ecb_a, ecb_b, ecb_tmp, task_dt, task_count,
                   rc_applied, rc_sampled, rc_edges, rc_samples>>
    /\ RaceFrame

RaceInit ==
    /\ rc_count = 0
    /\ rc_rpm = 0
    /\ ecb_pc = "idle"
    /\ ecb_a = 0
    /\ ecb_b = 0
    /\ ecb_tmp = 0
    /\ task_pc = "sleep"
    /\ task_dt = 0
    /\ task_count = 0
    /\ rc_applied = 0
    /\ rc_sampled = 0
    /\ rc_edges = 0
    /\ rc_samples = 0
    /\ rc_rpm_before = 0

RaceNext ==
    \/ \E a \in {0, 1} : ecb_read_a(a)
    \/ \E b \in {0, 1} : ecb_read_b(b)
    \/ ecb_load
    \/ ecb_store
    \/ \E dt \in DtSet : task_time(dt)
    \/ task_read
    \/ task_reset
    \/ task_compute

(***************************************************************************)
(* A quadrature signal and the three decoders of the repository attached   *)
(* to it.  Forward motion walks the phases 0 -> 1 -> 2 -> 3 -> 0, reverse  *)
(* motion walks them backwards.  Each callback is taken to run before the  *)
(* next transition, so the levels it reads are those right after its edge. *)
(***************************************************************************)
MaxPath == 8         \* channel transitions explored

LevelA(ph) == IF ph \in {1, 2} THEN 1 ELSE 0
LevelB(ph) == IF ph \in {2, 3} THEN 1 ELSE 0

\* mutant: direction taken from the level of B alone
encoder_callback_A_b_only(a, b) == IF b = 0 THEN 1 ELSE -1

\* PID_control.py, odometry.py: if read(A) == read(B): +1 else: -1
encoder_callback_A(a, b) == IF a = b THEN 1 ELSE -1

QuadStep(dir) ==
    /\ Len(q_path) < MaxPath
    /\ LET ph == (q_phase + (IF dir = "F" THEN 1 ELSE 3)) % 4
           a == LevelA(ph)
           b == LevelB(ph)
           aedge == a # LevelA(q_phase)
           dA == IF aedge THEN encoder_callback_A(a, b) ELSE 0
       IN /\ q_phase' = ph
          /\ q_path' = Append(q_path, dir)
          /\ q_aedges' = q_aedges + (IF aedge THEN 1 ELSE 0)
          /\ q_last' = [aedge |-> aedge, dir |-> dir, dA |-> dA]
          \* PID_control.py:204 EITHER_EDGE on ENCA, odometry.py:96 BOTH on A
          /\ cntA' = cntA + dA
          \* 1motor.py:159 EITHER_EDGE on ENCA
          /\ cnt1' = cnt1 + (IF aedge THEN CallbackDelta("1motor", a, b) ELSE 0)
          \* TeleOp/1motor.py:41-42 EITHER_EDGE on ENCA and on ENCB
          /\ cnt4' = cnt4 + encoder_cb_delta(a, b)
    /\ UNCHANGED OtherThanQuad

step_forward == QuadStep("F")
step_reverse == QuadStep("R")

QuadInit ==
    /\ q_phase = 0
    /\ q_path = <<>>
    /\ q_aedges = 0
    /\ q_last = [aedge |-> FALSE, dir |-> "F", dA |-> 0]
    /\ cntA = 0
    /\ cnt1 = 0
    /\ cnt4 = 0

QuadNext == step_forward \/ step_reverse

\* a motion followed by its exact reverse
RoundTrip(p) ==
    /\ Len(p) % 2 = 0
    /\ \A i \in 1..Len(p) : p[i] # p[Len(p) + 1 - i]

OneDirection(p) == \A i \in 1..Len(p) : p[i] = p[1]

(***************************************************************************)
(* dual_pid_mdd20a.py: class PIDController.  Time is in ms, the integral   *)
(* in RPM*ms, the output in 1/5000.                                        *)
(***************************************************************************)
MaxCalls == 4        \* update calls explored
MaxClockSteps == 3   \* changes of the wall clock explored

SAMPLE_TIME_MS == 50
\* Kp_1, Ki_1, Kd_1 = 0.6, 2.0, 0.0, in 1/5000 per RPM, per RPM*ms, per RPM/ms
PidKp == 3000
PidKi == 10
PidKd == 0

\* target magnitudes of main's demo profile, measured magnitudes
PidTargets == {0, 50}
PidMeasured == {0, 50}
\* the wall clock between two calls: stepped back, one period, a long stall
ClockSteps == {-50, 50, 10000}

\* mutant: the measured interval used as it is
DtUsedUnguarded(prev, now) ==
    IF prev = <<>> THEN SAMPLE_TIME_MS ELSE now - prev[1]

\* if self.prev_time is None: dt = SAMPLE_TIME
\* else: dt = now - self.prev_time; if dt <= 0: dt = SAMPLE_TIME
DtUsed(prev, now) ==
    IF prev = <<>> THEN SAMPLE_TIME_MS
    ELSE IF now - prev[1] <= 0 THEN SAMPLE_TIME_MS
    ELSE now - prev[1]

\* self.integral += error * dt
PidIntegrate(i, e, dt) == i + e * dt

pid_init ==
    /\ pid_integral = 0
    /\ pid_prev_error = 0
    /\ pid_prev_time = <<>>

pid_update(target, measured) ==
    /\ pid_calls < MaxCalls
    /\ ~pid_raised
    /\ LET now == wall
           dt == DtUsed(pid_prev_time, now)
           error == target - measured
           i == PidIntegrate(pid_integral, error, dt)
       IN /\ pid_integral' = i
          /\ IF dt = 0
             THEN \* derivative = (error - self.prev_error) / dt raises
                  /\ pid_raised' = TRUE
                  /\ UNCHANGED <<pid_prev_error, pid_prev_time>>
                  /\ pid_last' = [first |-> pid_prev_time = <<>>, now |-> now,
                                  elapsed |-> 0, dt |-> dt, error |-> error, output |-> 0]
             ELSE /\ pid_raised' = FALSE
                  /\ pid_prev_error' = error
                  /\ pid_prev_time' = <<now>>
                  /\ pid_last' =
                        [first |-> pid_prev_time = <<>>,
                         now |-> now,
                         elapsed |-> IF pid_prev_time = <<>> THEN 0 ELSE now - pid_prev_time[1],
                         dt |-> dt,
                         error |-> error,
                         output |-> PidKp * error + PidKi * i
                                    + PidKd * ((error - pid_prev_error) \div dt)]
    /\ pid_calls' = pid_calls + 1
    /\ UNCHANGED <<wall, pid_steps>>
    /\ UNCHANGED OtherThanPid

pid_reset ==
    /\ ~pid_raised
    /\ pid_integral' = 0
    /\ pid_prev_error' = 0
    /\ pid_prev_time' = <<>>
    /\ UNCHANGED <<wall, pid_raised, pid_last, pid_calls, pid_steps>>
    /\ UNCHANGED OtherThanPid

\* the wall clock between two readings of time.time()
clock_step(d) ==
    /\ pid_steps < MaxClockSteps
    /\ wall' = wall + d
    /\ pid_steps' = pid_steps + 1
    /\ UNCHANGED <<pid_integral, pid_prev_error, pid_prev_time, pid_raised, pid_last, pid_calls>>
    /\ UNCHANGED OtherThanPid

PidInit ==
    /\ wall = 0
    /\ pid_init
    /\ pid_raised = FALSE
    /\ pid_last = [first |-> FALSE, now |-> 0, elapsed |-> 0, dt |-> 0, error |-> 0, output |-> 0]
    /\ pid_calls = 0
    /\ pid_steps = 0

PidNext ==
    \/ \E t \in PidTargets, m \in PidMeasured : pid_update(t, m)
    \/ pid_reset
    \/ \E d \in ClockSteps : clock_step(d)

(***************************************************************************)
(* Specifications.                                                         *)

(***************************************************************************)
(* PID_control.py: the PID stage of control_loop and set_motor.  The       *)
(* filtered speed is an input of the step (whole RPM); e_integral is kept  *)
(* in 1/10 RPM*s and u in 1/100, which is exact for Kp = 0.5, Ki = 2.0,    *)
(* Kd = 0.001 and CONTROL_INTERVAL = 0.1.                                  *)
(***************************************************************************)
TARGET_RPM == 120
\* rpm_filtered values the step may see
PcMeasured == {-300, 0, 100, 400}

\* u = Kp * e + Ki * e_integral + Kd * dedt, dedt = (e - e_prev) / 0.1
PcControl(e, i, eprev) == 50 * e + 20 * i + (e - eprev)

\* pwm_val = int(abs(u)); if pwm_val > 255: pwm_val = 255
PcPwmVal(u) == IF Abs(u) \div 100 > 255 THEN 255 ELSE Abs(u) \div 100

\* set_motor: duty_cycle = int((pwm_val / 255.0) * 1_000_000)
PcDutyCycle(p) == (p * 1000000) \div 255

pc_control_loop(rpm_filtered) ==
    /\ pc_cycles < MaxPcCycles
    /\ LET e == TARGET_RPM - rpm_filtered
           i == pc_e_integral + e
           u == PcControl(e, i, pc_e_prev)
       IN /\ pc_e_integral' = i
          /\ pc_e_prev' = e
          /\ pc_u' = u
          /\ pc_direction' = IF u < 0 THEN 0 ELSE 1
          /\ pc_pwm_val' = PcPwmVal(u)
          /\ pc_duty_cycle' = PcDutyCycle(PcPwmVal(u))
    /\ pc_cycles' = pc_cycles + 1
    /\ UNCHANGED OtherThanPc

PcInit ==
    /\ pc_e_integral = 0
    /\ pc_e_prev = 0
    /\ pc_direction = 0
    /\ pc_pwm_val = 0
    /\ pc_duty_cycle = 0
    /\ pc_u = 0
    /\ pc_cycles = 0

PcNext == \E r \in PcMeasured : pc_control_loop(r)


(***************************************************************************)
(* dual_pid_mdd20a.py: set_motor(pwm_obj, dir_pin, command).               *)
(***************************************************************************)
\* Saturate command
Saturate(c) == IF c > 100 THEN 100 ELSE IF c < -100 THEN -100 ELSE c

\* mutant: a zero command drives the direction pin low
SmDirectionStrict(c) == IF c > 0 THEN "HIGH" ELSE "LOW"

\* if command >= 0: GPIO.output(dir_pin, GPIO.HIGH) else GPIO.LOW
SmDirection(c) == IF c >= 0 THEN "HIGH" ELSE "LOW"

\* duty = command / duty = -command
SmDuty(c) == IF c >= 0 THEN c ELSE -c

set_motor(command) ==
    /\ sm_command' = command
    /\ sm_dir' = SmDirection(Saturate(command))
    /\ sm_duty' = SmDuty(Saturate(command))
    /\ sm_called' = TRUE
    /\ UNCHANGED OtherThanSm

\* setup_gpio: DIR pins are outputs (low), PWM started with duty 0
SmInit ==
    /\ sm_command = 0
    /\ sm_dir = "LOW"
    /\ sm_duty = 0
    /\ sm_called = FALSE

SmNext == \E c \in -MaxCmd..MaxCmd : set_motor(c)


(***************************************************************************)
(* TeleOp/1motor.py: control_task against the KeyboardInterrupt handler    *)
(* of the main thread, one statement per step.  control_task is a daemon   *)
(* thread: it is not joined and ends when the main thread has exited.      *)
(***************************************************************************)
\* int(duty * 10000) for duty clamped to 0..100
StopDuties == {0, 400000, 1000000}

StopFrame == UNCHANGED OtherThanSt

\* while running:
st_test ==
    /\ st_main_pc # "exited"
    /\ st_ctl_pc = "test"
    /\ st_ctl_pc' = IF st_running THEN "compute" ELSE "done"
    /\ UNCHANGED <<st_running, st_main_pc, st_duty, st_pwm, st_dir, st_zeroed, st_connected, st_iters>>
    /\ StopFrame

\* error, integral, duty = max(0, min(100, Kp * error + Ki * integral))
st_compute(d) ==
    /\ st_main_pc # "exited"
    /\ st_ctl_pc = "compute"
    /\ st_iters < MaxStopIters
    /\ st_duty' = d
    /\ st_iters' = st_iters + 1
    /\ st_ctl_pc' = "pwm"
    /\ UNCHANGED <<st_running, st_main_pc, st_pwm, st_dir, st_zeroed, st_connected>>
    /\ StopFrame

\* pi.hardware_PWM(PWM_PIN, 20000, int(duty * 10000)); after pi.stop() the
\* call raises and ends the thread
st_hardware_PWM ==
    /\ st_main_pc # "exited"
    /\ st_ctl_pc = "pwm"
    /\ IF st_connected
       THEN st_pwm' = st_duty /\ st_ctl_pc' = "sleep"
       ELSE st_ctl_pc' = "done" /\ UNCHANGED st_pwm
    /\ UNCHANGED <<st_running, st_main_pc, st_duty, st_dir, st_zeroed, st_connected, st_iters>>
    /\ StopFrame

\* print(...); time.sleep(0.1)
st_sleep ==
    /\ st_main_pc # "exited"
    /\ st_ctl_pc = "sleep"
    /\ st_ctl_pc' = "test"
    /\ UNCHANGED <<st_running, st_main_pc, st_duty, st_pwm, st_dir, st_zeroed, st_connected, st_iters>>
    /\ StopFrame

\* Ctrl+C while the main thread is in while True: time.sleep(1)
KeyboardInterrupt ==
    /\ st_main_pc = "wait"
    /\ st_main_pc' = "set_running"
    /\ UNCHANGED <<st_running, st_ctl_pc, st_duty, st_pwm, st_dir, st_zeroed, st_connected, st_iters>>
    /\ StopFrame

\* running = False
st_set_running ==
    /\ st_main_pc = "set_running"
    /\ st_running' = FALSE
    /\ st_main_pc' = "zero"
    /\ UNCHANGED <<st_ctl_pc, st_duty, st_pwm, st_dir, st_zeroed, st_connected, st_iters>>
    /\ StopFrame

\* pi.hardware_PWM(PWM_PIN, 0, 0)
st_zero ==
    /\ st_main_pc = "zero"
    /\ st_pwm' = 0
    /\ st_zeroed' = TRUE
    /\ st_main_pc' = "stop"
    /\ UNCHANGED <<st_running, st_ctl_pc, st_duty, st_dir, st_connected, st_iters>>
    /\ StopFrame

\* pi.stop(); the script ends
st_stop ==
    /\ st_main_pc = "stop"
    /\ st_connected' = FALSE
    /\ st_main_pc' = "exited"
    /\ UNCHANGED <<st_running, st_ctl_pc, st_duty, st_pwm, st_dir, st_zeroed, st_iters>>
    /\ StopFrame

\* module level: pi.write(DIR_PIN, 1), running = True, threads started
StopInit ==
    /\ st_running = TRUE
    /\ st_main_pc = "wait"
    /\ st_ctl_pc = "test"
    /\ st_duty = 0
    /\ st_pwm = 0
    /\ st_dir = 1
    /\ st_zeroed = FALSE
    /\ st_connected = TRUE
    /\ st_iters = 0

StopNext ==
    \/ st_test
    \/ \E d \in StopDuties : st_compute(d)
    \/ st_hardware_PWM
    \/ st_sleep
    \/ KeyboardInterrupt
    \/ st_set_running
    \/ st_zero
    \/ st_stop


(***************************************************************************)
(* 1motor.py: main thread (user_input_loop, then the finally block of      *)
(* main) beside control_loop, one statement per step.  The SIGINT handler  *)
(* runs in the main thread between two of its statements; a blocked        *)
(* input() is resumed after the handler returns.                           *)
(***************************************************************************)
\* line.split() of what the operator may type; "EOF" stands for end of file
Lines ==
    {[cmd |-> "", arg |-> ""], [cmd |-> "q", arg |-> ""], [cmd |-> "EOF", arg |-> ""],
     [cmd |-> "s", arg |-> "0"], [cmd |-> "s", arg |-> "60"], [cmd |-> "s", arg |-> "x"],
     [cmd |-> "d", arg |-> "1"]}

\* float(parts[1]): <<v>> is the value, <<>> is ValueError
ParseFloat(a) ==
    IF a = "0" THEN <<0>> ELSE IF a = "60" THEN <<60>> ELSE <<>>

\* mutant: the target read once, when the thread started
TargetReadAtStart(g, c) == c

\* error = target_rpm - _rpm reads the global on every cycle
TargetRead(g, c) == g

MainFrame == UNCHANGED OtherThanMn

\* user_input_loop: while running
mn_while ==
    /\ mn_main_pc = "while"
    /\ mn_main_pc' = IF mn_running THEN "input" ELSE "finally"
    /\ UNCHANGED <<mn_running, mn_target, mn_line, mn_ctl_pc, mn_start_target, mn_assigned,
                   mn_err, mn_sigint, mn_lines, mn_iters, mn_pwm, mn_dir>>
    /\ MainFrame

\* line = input().strip(): returns when the operator enters a line;
\* EOFError breaks out of the loop
mn_input(l) ==
    /\ mn_main_pc = "input"
    /\ mn_lines < MaxLines
    /\ mn_lines' = mn_lines + 1
    /\ mn_line' = l
    /\ mn_main_pc' = IF l.cmd = "EOF" THEN "finally" ELSE "dispatch"
    /\ UNCHANGED <<mn_running, mn_target, mn_ctl_pc, mn_start_target, mn_assigned,
                   mn_err, mn_sigint, mn_iters, mn_pwm, mn_dir>>
    /\ MainFrame

\* if not line: continue / q / s <rpm> / d <0/1> / unknown command
mn_dispatch ==
    /\ mn_main_pc = "dispatch"
    /\ IF mn_line.cmd = "q"
       THEN /\ mn_running' = FALSE
            /\ mn_main_pc' = "finally"
            /\ UNCHANGED <<mn_target, mn_assigned, mn_dir>>
       ELSE IF mn_line.cmd = "s" /\ ParseFloat(mn_line.arg) # <<>>
       THEN /\ mn_target' = ParseFloat(mn_line.arg)[1]
            /\ mn_assigned' = Append(mn_assigned, ParseFloat(mn_line.arg)[1])
            /\ mn_main_pc' = "while"
            /\ UNCHANGED <<mn_running, mn_dir>>
       ELSE IF mn_line.cmd = "d"
       THEN /\ mn_dir' = IF mn_line.arg = "1" THEN 1 ELSE 0
            /\ mn_main_pc' = "while"
            /\ UNCHANGED <<mn_running, mn_target, mn_assigned>>
       ELSE /\ mn_main_pc' = "while"
            /\ UNCHANGED <<mn_running, mn_target, mn_assigned, mn_dir>>
    /\ UNCHANGED <<mn_line, mn_ctl_pc, mn_start_target, mn_err, mn_sigint, mn_lines,
                   mn_iters, mn_pwm>>
    /\ MainFrame

\* main, finally: running = False
mn_finally ==
    /\ mn_main_pc = "finally"
    /\ mn_running' = FALSE
    /\ mn_main_pc' = "sleep"
    /\ UNCHANGED <<mn_target, mn_line, mn_ctl_pc, mn_start_target, mn_assigned,
                   mn_err, mn_sigint, mn_lines, mn_iters, mn_pwm, mn_dir>>
    /\ MainFrame

\* time.sleep(0.2)
mn_sleep ==
    /\ mn_main_pc = "sleep"
    /\ mn_main_pc' = "cleanup"
    /\ UNCHANGED <<mn_running, mn_target, mn_line, mn_ctl_pc, mn_start_target, mn_assigned,
                   mn_err, mn_sigint, mn_lines, mn_iters, mn_pwm, mn_dir>>
    /\ MainFrame

\* cleanup(): hardware_PWM(PWM_PIN, 0, 0); write(DIR_PIN, 0); stop(); exit
mn_cleanup ==
    /\ mn_main_pc = "cleanup"
    /\ mn_pwm' = 0
    /\ mn_dir' = 0
    /\ mn_main_pc' = "exited"
    /\ UNCHANGED <<mn_running, mn_target, mn_line, mn_ctl_pc, mn_start_target, mn_assigned,
                   mn_err, mn_sigint, mn_lines, mn_iters>>
    /\ MainFrame

\* SIGINT: sigint_handler sets running = False and returns; the main thread
\* goes on where it was
sigint_handler ==
    /\ mn_main_pc # "exited"
    /\ ~mn_sigint
    /\ mn_sigint' = TRUE
    /\ mn_running' = FALSE
    /\ UNCHANGED <<mn_target, mn_main_pc, mn_line, mn_ctl_pc, mn_start_target, mn_assigned,
                   mn_err, mn_lines, mn_iters, mn_pwm, mn_dir>>
    /\ MainFrame

\* control_loop: while running
mc_while ==
    /\ mn_main_pc # "exited"
    /\ mn_ctl_pc = "while"
    /\ mn_ctl_pc' = IF mn_running THEN "sleep" ELSE "done"
    /\ UNCHANGED <<mn_running, mn_target, mn_main_pc, mn_line, mn_start_target, mn_assigned,
                   mn_err, mn_sigint, mn_lines, mn_iters, mn_pwm, mn_dir>>
    /\ MainFrame

\* time.sleep(SAMPLE_INTERVAL)
mc_sleep ==
    /\ mn_main_pc # "exited"
    /\ mn_ctl_pc = "sleep"
    /\ mn_iters < MaxMainIters
    /\ mn_iters' = mn_iters + 1
    /\ mn_ctl_pc' = "error"
    /\ UNCHANGED <<mn_running, mn_target, mn_main_pc, mn_line, mn_start_target, mn_assigned,
                   mn_err, mn_sigint, mn_lines, mn_pwm, mn_dir>>
    /\ MainFrame

\* error = target_rpm - _rpm
mc_error ==
    /\ mn_main_pc # "exited"
    /\ mn_ctl_pc = "error"
    /\ mn_err' = [used |-> TargetRead(mn_target, mn_start_target), n |-> Len(mn_assigned)]
    /\ mn_ctl_pc' = "set"
    /\ UNCHANGED <<mn_running, mn_target, mn_main_pc, mn_line, mn_start_target, mn_assigned,
                   mn_sigint, mn_lines, mn_iters, mn_pwm, mn_dir>>
    /\ MainFrame

\* integral, out, clamp, set_pwm_duty(duty)
mc_set_pwm(d) ==
    /\ mn_main_pc # "exited"
    /\ mn_ctl_pc = "set"
    /\ mn_pwm' = d
    /\ mn_ctl_pc' = "while"
    /\ UNCHANGED <<mn_running, mn_target, mn_main_pc, mn_line, mn_start_target, mn_assigned,
                   mn_err, mn_sigint, mn_lines, mn_iters, mn_dir>>
    /\ MainFrame

\* main() up to user_input_loop(): setup() done, threads started
MainInit ==
    /\ mn_running = TRUE
    /\ mn_target = 30
    /\ mn_main_pc = "while"
    /\ mn_line = [cmd |-> "", arg |-> ""]
    /\ mn_ctl_pc = "while"
    /\ mn_start_target = 30
    /\ mn_assigned = <<30>>
    /\ mn_err = [used |-> 30, n |-> 1]
    /\ mn_sigint = FALSE
    /\ mn_lines = 0
    /\ mn_iters = 0
    /\ mn_pwm = 0
    /\ mn_dir = 0

\* the steps the main thread takes by itself
MainThreadStep == mn_while \/ mn_dispatch \/ mn_finally \/ mn_sleep \/ mn_cleanup

MainNext ==
    \/ mn_while
    \/ \E l \in Lines : mn_input(l)
    \/ mn_dispatch
    \/ mn_finally
    \/ mn_sleep
    \/ mn_cleanup
    \/ sigint_handler
    \/ mc_while
    \/ mc_sleep
    \/ mc_error
    \/ \E d \in {0, 1000000} : mc_set_pwm(d)


(***************************************************************************)
(* Speed conversions as functions of (ticks, dt): counts_to_rpm of         *)
(* dual_pid_mdd20a.py and the computation of rpm_loop of 1motor.py.        *)
(* The intervals are those for which the quotient is a whole number of     *)
(* 1/169 RPM.                                                              *)
(***************************************************************************)
ConvDts == {-100, 0, 50, 100, 150, 200}

\* mutant: the sign of the count is dropped
RawRpmUnsigned(ticks, cpr, dt) == (Abs(ticks) * 60 * 1000 * RpmScale) \div (cpr * dt)

\* revs = counts / CPR; rps = revs / dt; rps * 60.0   (dt in ms)
RawRpm(ticks, cpr, dt) == (ticks * 60 * 1000 * RpmScale) \div (cpr * dt)

\* counts per revolution each conversion divides by
ConvCpr(fn) == IF fn = "counts_to_rpm" THEN CPR ELSE PULSES_PER_REV

counts_to_rpm(counts, dt) ==
    /\ cv_fn' = "counts_to_rpm"
    /\ cv_counts' = counts
    /\ cv_dt' = dt
    /\ cv_result' = IF dt <= 0 THEN 0 ELSE RawRpm(counts, CPR, dt)
    /\ UNCHANGED OtherThanCv

\* rpm_loop of 1motor.py from 'dt = now - _last_sample_time' on
cv_rpm_loop(count, dt) ==
    /\ cv_fn' = "rpm_loop"
    /\ cv_counts' = count
    /\ cv_dt' = dt
    /\ cv_result' = IF SkipSample("1motor", dt)
                    THEN cv_result
                    ELSE CountsToRpm("1motor", count, dt)
    /\ UNCHANGED OtherThanCv

ConvInit ==
    /\ cv_fn = "none"
    /\ cv_counts = 0
    /\ cv_dt = 0
    /\ cv_result = 0

ConvNext ==
    \/ \E c \in -MaxTicks..MaxTicks, dt \in ConvDts : counts_to_rpm(c, dt)
    \/ \E c \in -MaxTicks..MaxTicks, dt \in ConvDts : cv_rpm_loop(c, dt)


(***************************************************************************)
(* MotorController of rpi_arduino_motor_control.py and of                  *)
(* motorControl/controller.py inside 'with MotorController() as motors'.   *)
(* One thread; each method call is one step.  A write on an open port      *)
(* succeeds; a write on a closed port raises before anything is sent.      *)
(***************************************************************************)
ArClasses == {"rpi_arduino_motor_control", "motorControl"}
\* rpm values the block may command
ArRpms == {-15, 0, 10}

\* message = f"{rpm1},{rpm2}\n" without the newline
Message(rpm1, rpm2) == ToString(rpm1) \o "," \o ToString(rpm2)

\* mutant: close() without the stop
CloseLogNoStop(log) == Append(log, "close")

\* close(): self.stop() writes "0,0", then self.arduino.close()
CloseLog(log) == Append(Append(log, Message(0, 0)), "close")

ArFrame == UNCHANGED OtherThanAr

\* MotorController(): connect() opens the port or leaves self.arduino None
ar_init(cls, connected) ==
    /\ ar_pc = "start"
    /\ ar_class' = cls
    /\ ar_arduino' = IF connected THEN "open" ELSE "None"
    /\ ar_pc' = "body"
    /\ UNCHANGED <<ar_log, ar_raised, ar_calls>>
    /\ ArFrame

\* motors.setRPM(rpm1, rpm2): nothing without a connection; on a closed
\* port the write raises and setRPM reports the error
setRPM(rpm1, rpm2) ==
    /\ ar_pc \in {"body", "left"}
    /\ ar_calls < MaxArCalls
    /\ ar_calls' = ar_calls + 1
    /\ ar_log' = IF ar_arduino = "open" THEN Append(ar_log, Message(rpm1, rpm2)) ELSE ar_log
    /\ UNCHANGED <<ar_class, ar_pc, ar_arduino, ar_raised>>
    /\ ArFrame

\* motors.stop(): writes "0,0" (directly, or through setRPM(0, 0))
stop ==
    /\ ar_pc \in {"body", "left"}
    /\ ar_calls < MaxArCalls
    /\ ar_calls' = ar_calls + 1
    /\ ar_log' = IF ar_arduino = "open" THEN Append(ar_log, Message(0, 0)) ELSE ar_log
    /\ UNCHANGED <<ar_class, ar_pc, ar_arduino, ar_raised>>
    /\ ArFrame

\* the with block ends or raises: __exit__ calls close()
ar_exit(raised) ==
    /\ ar_pc = "body"
    /\ ar_raised' = raised
    /\ IF ar_arduino = "open"
       THEN ar_log' = CloseLog(ar_log) /\ ar_arduino' = "closed"
       ELSE UNCHANGED <<ar_log, ar_arduino>>
    /\ ar_pc' = "left"
    /\ UNCHANGED <<ar_class, ar_calls>>
    /\ ArFrame

ArInit ==
    /\ ar_class = "rpi_arduino_motor_control"
    /\ ar_pc = "start"
    /\ ar_arduino = "None"
    /\ ar_log = <<>>
    /\ ar_raised = FALSE
    /\ ar_calls = 0

ArNext ==
    \/ \E cls \in ArClasses, connected \in BOOLEAN : ar_init(cls, connected)
    \/ \E r1 \in ArRpms, r2 \in ArRpms : setRPM(r1, r2)
    \/ stop
    \/ \E raised \in BOOLEAN : ar_exit(raised)


(***************************************************************************)
(* Motor.ramp_to_speed / ramp() / stop_immediate of motor_gui_control.py   *)
(* (the same code is in z_module.py and zdirection_control.py), one        *)
(* statement per step.  The GUI thread makes the calls one after another;  *)
(* each ramp_to_speed starts a daemon thread running ramp().               *)
(* Speeds are in 1/SpeedScale %, exact for a ramp that starts inside       *)
(* another ramp.                                                           *)
(***************************************************************************)
RAMP_STEPS == MaxRampSteps
SpeedScale == RAMP_STEPS * RAMP_STEPS
\* SPEED_LEVELS values the GUI passes, and 0 for stop_smooth
RampTargets == {0, 40, 100}
RampThreads == 1..MaxRampCalls

Unborn == [pc |-> "unborn", start |-> 0, diff |-> 0, step |-> 0, new |-> 0,
           saw_stop |-> FALSE, completed |-> FALSE]

\* is_alive(): started and not finished
Alive(i) == i # 0 /\ rm_th[i].pc \notin {"unborn", "done"}

Between(x, a, b) == (a <= x /\ x <= b) \/ (b <= x /\ x <= a)

RampFrame == UNCHANGED OtherThanRm

\* ---- the GUI thread: ramp_to_speed(target_speed, direction)
\* self.stop_requested = True
ramp_to_speed(target, direction) ==
    /\ rm_main = "idle"
    /\ rm_calls < MaxRampCalls
    /\ rm_calls' = rm_calls + 1
    /\ rm_arg' = [target |-> target, direction |-> direction,
                   smooth |-> FALSE, before |-> rm_direction]
    /\ rm_stop_requested' = TRUE
    /\ rm_stopped' = FALSE
    /\ rm_main' = "join"
    /\ UNCHANGED <<rm_current_speed, rm_target_speed, rm_duty, rm_direction, rm_ramp_thread,
                   rm_th, rm_stops, rm_stale_write, rm_in_range>>
    /\ RampFrame

\* Motor.stop_smooth of z_module.py and zdirection_control.py:
\* self.ramp_to_speed(0, 1); the call then runs as any ramp_to_speed
stop_smooth ==
    /\ rm_main = "idle"
    /\ rm_calls < MaxRampCalls
    /\ rm_calls' = rm_calls + 1
    /\ rm_arg' = [target |-> 0, direction |-> 1, smooth |-> TRUE, before |-> rm_direction]
    /\ rm_stop_requested' = TRUE
    /\ rm_stopped' = FALSE
    /\ rm_main' = "join"
    /\ UNCHANGED <<rm_current_speed, rm_target_speed, rm_duty, rm_direction, rm_ramp_thread,
                   rm_th, rm_stops, rm_stale_write, rm_in_range>>
    /\ RampFrame

\* if self.ramp_thread and self.ramp_thread.is_alive(): join(timeout=0.1);
\* the thread has ended, or there was none
rm_join ==
    /\ rm_main = "join"
    /\ ~Alive(rm_ramp_thread)
    /\ rm_main' = "clear"
    /\ UNCHANGED <<rm_current_speed, rm_target_speed, rm_stop_requested, rm_duty, rm_direction,
                   rm_ramp_thread, rm_th, rm_arg, rm_calls, rm_stops, rm_stopped,
                   rm_stale_write, rm_in_range>>
    /\ RampFrame

\* join(timeout=0.1) returns with the thread still alive
rm_join_timeout ==
    /\ rm_main = "join"
    /\ Alive(rm_ramp_thread)
    /\ rm_main' = "clear"
    /\ UNCHANGED <<rm_current_speed, rm_target_speed, rm_stop_requested, rm_duty, rm_direction,
                   rm_ramp_thread, rm_th, rm_arg, rm_calls, rm_stops, rm_stopped,
                   rm_stale_write, rm_in_range>>
    /\ RampFrame

\* self.stop_requested = False
rm_clear ==
    /\ rm_main = "clear"
    /\ rm_stop_requested' = FALSE
    /\ rm_main' = "target"
    /\ UNCHANGED <<rm_current_speed, rm_target_speed, rm_duty, rm_direction, rm_ramp_thread,
                   rm_th, rm_arg, rm_calls, rm_stops, rm_stopped, rm_stale_write, rm_in_range>>
    /\ RampFrame

\* self.target_speed = abs(target_speed); self.set_direction(direction)
rm_target ==
    /\ rm_main = "target"
    /\ rm_target_speed' = Abs(rm_arg.target) * SpeedScale
    /\ rm_direction' = rm_arg.direction
    /\ rm_main' = "start"
    /\ UNCHANGED <<rm_current_speed, rm_stop_requested, rm_duty, rm_ramp_thread,
                   rm_th, rm_arg, rm_calls, rm_stops, rm_stopped, rm_stale_write, rm_in_range>>
    /\ RampFrame

\* self.ramp_thread = threading.Thread(target=ramp, daemon=True); start()
rm_start ==
    /\ rm_main = "start"
    /\ rm_ramp_thread' = rm_calls
    /\ rm_th' = [rm_th EXCEPT ![rm_calls].pc = "start"]
    /\ rm_main' = "idle"
    /\ UNCHANGED <<rm_current_speed, rm_target_speed, rm_stop_requested, rm_duty, rm_direction,
                   rm_arg, rm_calls, rm_stops, rm_stopped, rm_stale_write, rm_in_range>>
    /\ RampFrame

\* ---- the GUI thread: stop_immediate()
\* self.stop_requested = True
stop_immediate ==
    /\ rm_main = "idle"
    /\ rm_stops < MaxStops
    /\ rm_stops' = rm_stops + 1
    /\ rm_stop_requested' = TRUE
    /\ rm_main' = "s_speed"
    /\ UNCHANGED <<rm_current_speed, rm_target_speed, rm_duty, rm_direction, rm_ramp_thread,
                   rm_th, rm_arg, rm_calls, rm_stopped, rm_stale_write, rm_in_range>>
    /\ RampFrame

\* self.current_speed = 0; self.target_speed = 0
rm_stop_speed ==
    /\ rm_main = "s_speed"
    /\ rm_current_speed' = 0
    /\ rm_target_speed' = 0
    /\ rm_main' = "s_duty"
    /\ UNCHANGED <<rm_stop_requested, rm_duty, rm_direction, rm_ramp_thread,
                   rm_th, rm_arg, rm_calls, rm_stops, rm_stopped, rm_stale_write, rm_in_range>>
    /\ RampFrame

\* self.pwm.ChangeDutyCycle(0); return
rm_stop_duty ==
    /\ rm_main = "s_duty"
    /\ rm_duty' = 0
    /\ rm_stopped' = TRUE
    /\ rm_main' = "idle"
    /\ UNCHANGED <<rm_current_speed, rm_target_speed, rm_stop_requested, rm_direction,
                   rm_ramp_thread, rm_th, rm_arg, rm_calls, rm_stops, rm_stale_write, rm_in_range>>
    /\ RampFrame

\* ---- a ramp thread: ramp()
\* start_speed = self.current_speed; speed_diff = self.target_speed - start_speed
th_start(i) ==
    /\ rm_th[i].pc = "start"
    /\ rm_th' = [rm_th EXCEPT ![i].pc = "check",
                              ![i].start = rm_current_speed,
                              ![i].diff = rm_target_speed - rm_current_speed,
                              ![i].step = 0]
    /\ UNCHANGED <<rm_current_speed, rm_target_speed, rm_stop_requested, rm_duty, rm_direction,
                   rm_ramp_thread, rm_main, rm_arg, rm_calls, rm_stops, rm_stopped,
                   rm_stale_write, rm_in_range>>
    /\ RampFrame

\* for step in range(RAMP_STEPS + 1): if self.stop_requested: break
th_check(i) ==
    /\ rm_th[i].pc = "check"
    /\ rm_th' = IF rm_stop_requested
                THEN [rm_th EXCEPT ![i].pc = "final_check", ![i].saw_stop = TRUE]
                ELSE [rm_th EXCEPT ![i].pc = "compute"]
    /\ UNCHANGED <<rm_current_speed, rm_target_speed, rm_stop_requested, rm_duty, rm_direction,
                   rm_ramp_thread, rm_main, rm_arg, rm_calls, rm_stops, rm_stopped,
                   rm_stale_write, rm_in_range>>
    /\ RampFrame

\* new_speed = start_speed + speed_diff * (step / RAMP_STEPS)
NewSpeed(start, diff, step) == start + (diff * step) \div RAMP_STEPS

\* new_speed = ...; self.current_speed = new_speed
th_compute(i) ==
    /\ rm_th[i].pc = "compute"
    /\ LET new == NewSpeed(rm_th[i].start, rm_th[i].diff, rm_th[i].step)
       IN /\ rm_th' = [rm_th EXCEPT ![i].pc = "duty", ![i].new = new]
          /\ rm_current_speed' = new
    /\ rm_stale_write' = (rm_stale_write \/ i # rm_ramp_thread)
    /\ UNCHANGED <<rm_target_speed, rm_stop_requested, rm_duty, rm_direction,
                   rm_ramp_thread, rm_main, rm_arg, rm_calls, rm_stops, rm_stopped, rm_in_range>>
    /\ RampFrame

\* self.pwm.ChangeDutyCycle(new_speed)
th_duty(i) ==
    /\ rm_th[i].pc = "duty"
    /\ rm_duty' = rm_th[i].new
    /\ rm_th' = [rm_th EXCEPT ![i].pc = "sleep"]
    /\ rm_stale_write' = (rm_stale_write \/ i # rm_ramp_thread)
    /\ rm_in_range' = (rm_in_range /\ Between(rm_th[i].new, rm_th[i].start,
                                                rm_th[i].start + rm_th[i].diff))
    /\ UNCHANGED <<rm_current_speed, rm_target_speed, rm_stop_requested, rm_direction,
                   rm_ramp_thread, rm_main, rm_arg, rm_calls, rm_stops, rm_stopped>>
    /\ RampFrame

\* time.sleep(STEP_DELAY); next step, or the loop is over
th_sleep(i) ==
    /\ rm_th[i].pc = "sleep"
    /\ rm_th' = [rm_th EXCEPT ![i].step = @ + 1,
                              ![i].pc = IF rm_th[i].step + 1 > RAMP_STEPS
                                        THEN "final_check" ELSE "check"]
    /\ UNCHANGED <<rm_current_speed, rm_target_speed, rm_stop_requested, rm_duty, rm_direction,
                   rm_ramp_thread, rm_main, rm_arg, rm_calls, rm_stops, rm_stopped,
                   rm_stale_write, rm_in_range>>
    /\ RampFrame

\* if not self.stop_requested:
th_final_check(i) ==
    /\ rm_th[i].pc = "final_check"
    /\ rm_th' = IF rm_stop_requested
                THEN [rm_th EXCEPT ![i].pc = "done", ![i].saw_stop = TRUE]
                ELSE [rm_th EXCEPT ![i].pc = "final"]
    /\ UNCHANGED <<rm_current_speed, rm_target_speed, rm_stop_requested, rm_duty, rm_direction,
                   rm_ramp_thread, rm_main, rm_arg, rm_calls, rm_stops, rm_stopped,
                   rm_stale_write, rm_in_range>>
    /\ RampFrame

\* self.current_speed = self.target_speed; the thread ends
th_final(i) ==
    /\ rm_th[i].pc = "final"
    /\ rm_current_speed' = rm_target_speed
    /\ rm_th' = [rm_th EXCEPT ![i].pc = "done", ![i].completed = ~rm_th[i].saw_stop]
    /\ rm_stale_write' = (rm_stale_write \/ i # rm_ramp_thread)
    /\ UNCHANGED <<rm_target_speed, rm_stop_requested, rm_duty, rm_direction,
                   rm_ramp_thread, rm_main, rm_arg, rm_calls, rm_stops, rm_stopped, rm_in_range>>
    /\ RampFrame

\* Motor.__init__
RampInit ==
    /\ rm_current_speed = 0
    /\ rm_target_speed = 0
    /\ rm_stop_requested = FALSE
    /\ rm_duty = 0
    /\ rm_direction = 1
    /\ rm_ramp_thread = 0
    /\ rm_th = [i \in RampThreads |-> Unborn]
    /\ rm_main = "idle"
    /\ rm_arg = [target |-> 0, direction |-> 1, smooth |-> FALSE, before |-> 1]
    /\ rm_calls = 0
    /\ rm_stops = 0
    /\ rm_stopped = FALSE
    /\ rm_stale_write = FALSE
    /\ rm_in_range = TRUE

RampNext ==
    \/ \E target \in RampTargets, direction \in {1, -1} : ramp_to_speed(target, direction)
    \/ stop_smooth
    \/ rm_join
    \/ rm_join_timeout
    \/ rm_clear
    \/ rm_target
    \/ rm_start
    \/ stop_immediate
    \/ rm_stop_speed
    \/ rm_stop_duty
    \/ \E i \in RampThreads : th_start(i)
    \/ \E i \in RampThreads : th_check(i)
    \/ \E i \in RampThreads : th_compute(i)
    \/ \E i \in RampThreads : th_duty(i)
    \/ \E i \in RampThreads : th_sleep(i)
    \/ \E i \in RampThreads : th_final_check(i)
    \/ \E i \in RampThreads : th_final(i)


(***************************************************************************)
(* motor_keyboard_control.py: on_press / on_release run on the listener    *)
(* thread, one whole handler per step; the ramp thread of each motor runs  *)
(* one statement per step.  This Motor guards ramp_to_speed with the       *)
(* 'ramping' flag.                                                         *)
(***************************************************************************)
MovementKeys == {"w", "s", "a", "d"}
KbMotors == {"left", "right"}
\* SPEED_LEVELS[self.current_level] with the default level 3
KbLevelSpeed == 60
\* SPEED_LEVELS[2], used for turns
KbTurnSpeed == 40

\* forward / backward / turn_left / turn_right: speed and direction per motor
KbCommand(k, m) ==
    IF k = "w" THEN [speed |-> KbLevelSpeed, direction |-> 1]
    ELSE IF k = "s" THEN [speed |-> KbLevelSpeed, direction |-> -1]
    ELSE IF k = "a" THEN [speed |-> KbTurnSpeed, direction |-> IF m = "left" THEN -1 ELSE 1]
    ELSE [speed |-> KbTurnSpeed, direction |-> IF m = "left" THEN 1 ELSE -1]

\* Motor.ramp_to_speed: if self.ramping: return; else flag, target,
\* direction, new thread
KbRampToSpeed(mot, target, direction) ==
    IF mot.ramping
    THEN mot
    ELSE [mot EXCEPT !.ramping = TRUE,
                     !.target_speed = Abs(target) * SpeedScale,
                     !.direction = direction,
                     !.pc = "start"]

KbFrame == UNCHANGED OtherThanKb

\* on_press: ignore a repeated key, add it, start the movement
on_press(k) ==
    /\ kb_events < MaxKeyEvents
    /\ k \notin kb_active_keys
    /\ kb_events' = kb_events + 1
    /\ kb_active_keys' = kb_active_keys \cup {k}
    /\ kb_m' = [m \in KbMotors |->
                  KbRampToSpeed(kb_m[m], KbCommand(k, m).speed, KbCommand(k, m).direction)]
    /\ kb_stop_all' = FALSE
    /\ KbFrame

\* on_release: remove the key; stop_all() if no movement key is held
on_release(k) ==
    /\ kb_events < MaxKeyEvents
    /\ k \in kb_active_keys
    /\ kb_events' = kb_events + 1
    /\ kb_active_keys' = kb_active_keys \ {k}
    /\ IF (kb_active_keys \ {k}) \cap MovementKeys = {}
       THEN /\ kb_m' = [m \in KbMotors |-> KbRampToSpeed(kb_m[m], 0, kb_m[m].direction)]
            /\ kb_stop_all' = TRUE
       ELSE UNCHANGED <<kb_m, kb_stop_all>>
    /\ KbFrame

\* ramp(): start_speed = self.current_speed; speed_diff = ...
kt_start(m) ==
    /\ kb_m[m].pc = "start"
    /\ kb_m' = [kb_m EXCEPT ![m].pc = "check",
                            ![m].start = kb_m[m].current_speed,
                            ![m].diff = kb_m[m].target_speed - kb_m[m].current_speed,
                            ![m].step = 0]
    /\ UNCHANGED <<kb_active_keys, kb_events, kb_stop_all>>
    /\ KbFrame

\* for step in range(RAMP_STEPS + 1): if not self.ramping: break
kt_check(m) ==
    /\ kb_m[m].pc = "check"
    /\ kb_m' = [kb_m EXCEPT ![m].pc = IF kb_m[m].ramping THEN "compute" ELSE "final"]
    /\ UNCHANGED <<kb_active_keys, kb_events, kb_stop_all>>
    /\ KbFrame

\* new_speed = ...; self.current_speed = new_speed
kt_compute(m) ==
    /\ kb_m[m].pc = "compute"
    /\ kb_m' = [kb_m EXCEPT ![m].pc = "duty",
                            ![m].current_speed =
                                NewSpeed(kb_m[m].start, kb_m[m].diff, kb_m[m].step)]
    /\ UNCHANGED <<kb_active_keys, kb_events, kb_stop_all>>
    /\ KbFrame

\* self.pwm.ChangeDutyCycle(new_speed)
kt_duty(m) ==
    /\ kb_m[m].pc = "duty"
    /\ kb_m' = [kb_m EXCEPT ![m].pc = "sleep",
                            ![m].duty = NewSpeed(kb_m[m].start, kb_m[m].diff, kb_m[m].step)]
    /\ UNCHANGED <<kb_active_keys, kb_events, kb_stop_all>>
    /\ KbFrame

\* time.sleep(STEP_DELAY)
kt_sleep(m) ==
    /\ kb_m[m].pc = "sleep"
    /\ kb_m' = [kb_m EXCEPT ![m].step = @ + 1,
                            ![m].pc = IF kb_m[m].step + 1 > RAMP_STEPS
                                      THEN "final" ELSE "check"]
    /\ UNCHANGED <<kb_active_keys, kb_events, kb_stop_all>>
    /\ KbFrame

\* self.current_speed = self.target_speed
kt_final(m) ==
    /\ kb_m[m].pc = "final"
    /\ kb_m' = [kb_m EXCEPT ![m].pc = "unflag", ![m].current_speed = kb_m[m].target_speed]
    /\ UNCHANGED <<kb_active_keys, kb_events, kb_stop_all>>
    /\ KbFrame

\* self.ramping = False; the thread ends
kt_unflag(m) ==
    /\ kb_m[m].pc = "unflag"
    /\ kb_m' = [kb_m EXCEPT ![m].pc = "none", ![m].ramping = FALSE]
    /\ UNCHANGED <<kb_active_keys, kb_events, kb_stop_all>>
    /\ KbFrame

\* DualMotorController.__init__, Motor.__init__
KbInit ==
    /\ kb_active_keys = {}
    /\ kb_m = [m \in KbMotors |->
                 [current_speed |-> 0, target_speed |-> 0, direction |-> 1,
                  ramping |-> FALSE, duty |-> 0,
                  pc |-> "none", start |-> 0, diff |-> 0, step |-> 0]]
    /\ kb_events = 0
    /\ kb_stop_all = FALSE

\* a step of one of the ramp threads
KbThreadStep ==
    \E m \in KbMotors :
        kt_start(m) \/ kt_check(m) \/ kt_compute(m) \/ kt_duty(m) \/ kt_sleep(m)
            \/ kt_final(m) \/ kt_unflag(m)

KbNext ==
    \/ \E k \in MovementKeys : on_press(k)
    \/ \E k \in MovementKeys : on_release(k)
    \/ \E m \in KbMotors : kt_start(m)
    \/ \E m \in KbMotors : kt_check(m)
    \/ \E m \in KbMotors : kt_compute(m)
    \/ \E m \in KbMotors : kt_duty(m)
    \/ \E m \in KbMotors : kt_sleep(m)
    \/ \E m \in KbMotors : kt_final(m)
    \/ \E m \in KbMotors : kt_unflag(m)


(***************************************************************************)
(* src/controller.py: ZAxisController.  A move is a timed run of the motor *)
(* in a background thread; the carriage travels speed * time.              *)
(***************************************************************************)
Z_SPEED_AT_100_PERCENT == 12
total_height_cm == 60
\* levels a caller may pass: the five presets and one value on each side
ZLevels == 0..6

\* move_distance: move_time = distance_cm / speed_cm_per_sec, in ms
MoveTime(distance_cm, speed_percent) ==
    (distance_cm * 1000 * 100) \div (speed_percent * Z_SPEED_AT_100_PERCENT)

\* travel of the carriage during a run of 'duration' ms at speed_percent
Travel(duration, speed_percent) ==
    (duration * speed_percent * Z_SPEED_AT_100_PERCENT) \div (1000 * 100)

\* move_to_level: target_position = (total_height_cm / 4) * (level - 1)
TargetPosition(level) == (total_height_cm * (level - 1)) \div 4

ZxFrame == UNCHANGED OtherThanZx

ZxThreads == 1..MaxLevelCalls
\* distances and directions of the Manual Move buttons of z_module.py, cm
ZxDistances == {0, 10}

\* mutant: a call made during a move is not turned away
MoveRefusedNever(moving) == FALSE

\* move_distance: if self.moving: print(...); return
MoveRefused(moving) == moving

\* the _execute_move thread is between its start and its stop_smooth() call
ZxActive(i) == zx_th[i].pc \in {"ramp", "sleep", "stop"}

\* move_distance(distance_cm, direction, speed_percent): controller state
MoveDistance(distance_cm, direction, speed_percent) ==
    IF MoveRefused(zx_moving)
    THEN /\ zx_busy_call' = TRUE
         /\ UNCHANGED <<zx_moving, zx_th, zx_started>>
    ELSE IF Abs(distance_cm) <= 0
    THEN UNCHANGED <<zx_moving, zx_th, zx_started, zx_busy_call>>
    ELSE /\ zx_moving' = TRUE
         /\ zx_th' = [zx_th EXCEPT ![zx_started + 1] =
                        [pc |-> "ramp",
                         duration |-> MoveTime(Abs(distance_cm), speed_percent),
                         direction |-> direction, speed_percent |-> speed_percent]]
         /\ zx_started' = zx_started + 1
         /\ UNCHANGED zx_busy_call

\* on_manual_move: move_distance(distance, direction, speed_percent=100)
move_distance(distance_cm, direction) ==
    /\ zx_calls < MaxLevelCalls
    /\ zx_calls' = zx_calls + 1
    /\ MoveDistance(distance_cm, direction, 100)
    /\ zx_other' = TRUE
    /\ UNCHANGED <<zx_height, zx_level>>
    /\ ZxFrame

\* move_to_level(level) with the move_distance(target_position, 1, 100) it makes
move_to_level(level) ==
    /\ zx_calls < MaxLevelCalls
    /\ zx_calls' = zx_calls + 1
    /\ IF level < 1 \/ level > 5
       THEN UNCHANGED <<zx_moving, zx_th, zx_started, zx_level, zx_busy_call>>
       ELSE /\ MoveDistance(TargetPosition(level), 1, 100)
            /\ zx_level' = IF MoveRefused(zx_moving) THEN zx_level ELSE level
    /\ UNCHANGED <<zx_height, zx_other>>
    /\ ZxFrame

\* _execute_move: self.motor.ramp_to_speed(speed_percent, direction);
\* an exception goes to except / finally
zx_ramp(i, raised) ==
    /\ zx_th[i].pc = "ramp"
    /\ zx_th' = [zx_th EXCEPT ![i].pc = IF raised THEN "finally" ELSE "sleep"]
    /\ zx_other' = (zx_other \/ raised)
    /\ UNCHANGED <<zx_moving, zx_started, zx_height, zx_level, zx_busy_call, zx_calls>>
    /\ ZxFrame

\* _execute_move: time.sleep(duration) while the motor runs
zx_sleep(i) ==
    /\ zx_th[i].pc = "sleep"
    /\ zx_th' = [zx_th EXCEPT ![i].pc = "stop"]
    /\ zx_height' = zx_height
                      + zx_th[i].direction * Travel(zx_th[i].duration, zx_th[i].speed_percent)
    /\ UNCHANGED <<zx_moving, zx_started, zx_other, zx_level, zx_busy_call, zx_calls>>
    /\ ZxFrame

\* _execute_move: self.motor.stop_smooth(); print("Move complete.")
zx_stop(i, raised) ==
    /\ zx_th[i].pc = "stop"
    /\ zx_th' = [zx_th EXCEPT ![i].pc = "finally"]
    /\ zx_other' = (zx_other \/ raised)
    /\ UNCHANGED <<zx_moving, zx_started, zx_height, zx_level, zx_busy_call, zx_calls>>
    /\ ZxFrame

\* _execute_move: finally: self.moving = False; the thread ends
zx_finally(i) ==
    /\ zx_th[i].pc = "finally"
    /\ zx_th' = [zx_th EXCEPT ![i].pc = "done"]
    /\ zx_moving' = FALSE
    /\ UNCHANGED <<zx_started, zx_other, zx_height, zx_level, zx_busy_call, zx_calls>>
    /\ ZxFrame

\* ZAxisController.__init__, carriage at the bottom
ZxInit ==
    /\ zx_moving = FALSE
    /\ zx_th = [i \in ZxThreads |->
                  [pc |-> "none", duration |-> 0, direction |-> 1, speed_percent |-> 100]]
    /\ zx_started = 0
    /\ zx_other = FALSE
    /\ zx_height = 0
    /\ zx_level = 0
    /\ zx_busy_call = FALSE
    /\ zx_calls = 0

ZxNext ==
    \/ \E level \in ZLevels : move_to_level(level)
    \/ \E d \in ZxDistances, direction \in {1, -1} : move_distance(d, direction)
    \/ \E i \in ZxThreads, raised \in BOOLEAN : zx_ramp(i, raised)
    \/ \E i \in ZxThreads : zx_sleep(i)
    \/ \E i \in ZxThreads, raised \in BOOLEAN : zx_stop(i, raised)
    \/ \E i \in ZxThreads : zx_finally(i)


(***************************************************************************)
(* Tick accounting: rpm_loop of 1motor.py reads and resets the counter     *)
(* under the lock; control_loop of PID_control.py reads a running counter  *)
(* and subtracts the previous reading.  Both are given the same edges and  *)
(* read their counter at the same instants.                                *)
(***************************************************************************)
RECURSIVE SeqSum(_)
SeqSum(s) == IF s = <<>> THEN 0 ELSE s[1] + SeqSum(Tail(s))

\* mutant: the previous reading not carried forward
PrevAfterSampleStale(current_count, prev) == prev

\* prev_encoder_count = current_count
PrevAfterSample(current_count, prev) == current_count

TkFrame == UNCHANGED OtherThanTk

\* an edge: encoder_callback of 1motor.py (under the lock) and
\* encoder_callback_A of PID_control.py each count the tick d
tk_edge(d) ==
    /\ tk_edges < MaxTkEdges
    /\ tk_edges' = tk_edges + 1
    /\ tk_encoder_count' = tk_encoder_count + d
    /\ tk_running_count' = tk_running_count + d
    /\ tk_net' = tk_net + d
    /\ UNCHANGED <<tk_counts, tk_prev_encoder_count, tk_current_count, tk_pc, tk_deltas>>
    /\ TkFrame

\* a sampling instant: rpm_loop's count = _encoder_count; _encoder_count = 0
\* under the lock, and control_loop's current_count = encoder_count
tk_sample ==
    /\ tk_pc = "wait"
    /\ Len(tk_counts) < MaxWindows
    /\ tk_counts' = Append(tk_counts, tk_encoder_count)
    /\ tk_encoder_count' = 0
    /\ tk_current_count' = tk_running_count
    /\ tk_pc' = "delta"
    /\ UNCHANGED <<tk_running_count, tk_prev_encoder_count, tk_deltas, tk_net, tk_edges>>
    /\ TkFrame

\* delta_count = current_count - prev_encoder_count; prev_encoder_count = current_count
tk_delta ==
    /\ tk_pc = "delta"
    /\ tk_deltas' = Append(tk_deltas, tk_current_count - tk_prev_encoder_count)
    /\ tk_prev_encoder_count' = PrevAfterSample(tk_current_count, tk_prev_encoder_count)
    /\ tk_pc' = "wait"
    /\ UNCHANGED <<tk_encoder_count, tk_counts, tk_running_count, tk_current_count, tk_net, tk_edges>>
    /\ TkFrame

TkInit ==
    /\ tk_encoder_count = 0
    /\ tk_counts = <<>>
    /\ tk_running_count = 0
    /\ tk_prev_encoder_count = 0
    /\ tk_current_count = 0
    /\ tk_pc = "wait"
    /\ tk_deltas = <<>>
    /\ tk_net = 0
    /\ tk_edges = 0

TkNext ==
    \/ \E d \in {-1, 1} : tk_edge(d)
    \/ tk_sample
    \/ tk_delta


(***************************************************************************)
(* src/1motor.py: main starts rpm_loop and control_loop as two threads;    *)
(* each sleeps SAMPLE_INTERVAL and runs one iteration.  _rpm is written by *)
(* the first and read by the second.                                       *)
(***************************************************************************)
\* intervals rpm_loop may measure between two samples, ms
FrDts == {0, 100}

FrFrame == UNCHANGED OtherThanFr

\* rpm_loop: time.sleep(SAMPLE_INTERVAL) is over
rl_sleep ==
    /\ fr_rl_pc = "sleep"
    /\ fr_produced < MaxFrSamples
    /\ fr_rl_pc' = "read"
    /\ UNCHANGED <<fr_rpm, fr_produced, fr_cl_pc, fr_used, fr_prev_used, fr_cycles>>
    /\ FrFrame

\* rpm_loop: with _encoder_lock: count = _encoder_count; _encoder_count = 0
rl_read ==
    /\ fr_rl_pc = "read"
    /\ fr_rl_pc' = "store"
    /\ UNCHANGED <<fr_rpm, fr_produced, fr_cl_pc, fr_used, fr_prev_used, fr_cycles>>
    /\ FrFrame

\* rpm_loop: dt = now - _last_sample_time; if dt <= 0: continue
\* revs = ...; _rpm = revs * 60.0
rl_store(dt) ==
    /\ fr_rl_pc = "store"
    /\ fr_rl_pc' = "sleep"
    /\ IF SkipSample("1motor", dt)
       THEN UNCHANGED <<fr_rpm, fr_produced>>
       ELSE /\ fr_produced' = fr_produced + 1
            /\ fr_rpm' = fr_produced + 1
    /\ UNCHANGED <<fr_cl_pc, fr_used, fr_prev_used, fr_cycles>>
    /\ FrFrame

\* control_loop: time.sleep(SAMPLE_INTERVAL) is over
cl_sleep ==
    /\ fr_cl_pc = "sleep"
    /\ fr_cycles < MaxFrCycles
    /\ fr_cl_pc' = "error"
    /\ UNCHANGED <<fr_rpm, fr_produced, fr_rl_pc, fr_used, fr_prev_used, fr_cycles>>
    /\ FrFrame

\* control_loop: error = target_rpm - _rpm
cl_error ==
    /\ fr_cl_pc = "error"
    /\ fr_cl_pc' = "output"
    /\ fr_prev_used' = fr_used
    /\ fr_used' = fr_rpm
    /\ fr_cycles' = fr_cycles + 1
    /\ UNCHANGED <<fr_rpm, fr_produced, fr_rl_pc>>
    /\ FrFrame

\* control_loop: integral, clamp, out, duty, set_pwm_duty(duty)
cl_output ==
    /\ fr_cl_pc = "output"
    /\ fr_cl_pc' = "sleep"
    /\ UNCHANGED <<fr_rpm, fr_produced, fr_rl_pc, fr_used, fr_prev_used, fr_cycles>>
    /\ FrFrame

\* module level: _rpm = 0.0; main starts both threads
FrInit ==
    /\ fr_rpm = 0
    /\ fr_produced = 0
    /\ fr_rl_pc = "sleep"
    /\ fr_cl_pc = "sleep"
    /\ fr_used = 0
    /\ fr_prev_used = -1
    /\ fr_cycles = 0

FrNext ==
    \/ rl_sleep
    \/ rl_read
    \/ \E dt \in FrDts : rl_store(dt)
    \/ cl_sleep
    \/ cl_error
    \/ cl_output


(***************************************************************************)
(* motorControl/controller.py: setBothMotors.  Time is in ms; one loop     *)
(* iteration is one step (setRPM sleeps 0.2 s, getDist waits for a reply). *)
(***************************************************************************)
BM_RAMP_TIME_MS == 500
\* max(time1, time2)
Max(a, b) == IF a >= b THEN a ELSE b
\* arguments of the call and durations of one loop iteration, ms
BmRpms == {-50, 50}
BmTimes == {0, 500, 1000}
BmDelays == {200, 300}

\* mutant: the branch for an expired duration left out
CurrentRpmNoCutoff(rpm_i, remaining) ==
    IF remaining > 0 /\ remaining < BM_RAMP_TIME_MS
    THEN (rpm_i * remaining) \div BM_RAMP_TIME_MS
    ELSE rpm_i

\* if remaining > 0 and remaining < ramp_time: rpm * (remaining / ramp_time)
\* elif remaining <= 0: 0   else: rpm
CurrentRpm(rpm_i, remaining) ==
    IF remaining > 0 /\ remaining < BM_RAMP_TIME_MS
    THEN (rpm_i * remaining) \div BM_RAMP_TIME_MS
    ELSE IF remaining <= 0 THEN 0
    ELSE rpm_i

\* setRPM: nothing is written when self.arduino is None
BmSent(connected, kind, elapsed, rpm1, rpm2) ==
    IF connected
    THEN [kind |-> kind, elapsed |-> elapsed, rpm1 |-> rpm1, rpm2 |-> rpm2]
    ELSE bm_last

\* setBothMotors: self.setRPM(rpm1, rpm2); max_time; start = time.time()
setBothMotors(rpm1, rpm2, time1, time2, connected) ==
    /\ bm_pc = "idle"
    /\ bm_call' = [rpm1 |-> rpm1, rpm2 |-> rpm2, time1 |-> time1, time2 |-> time2,
                   connected |-> connected, now |-> 0]
    /\ bm_last' = BmSent(connected, "first", 0, rpm1, rpm2)
    /\ bm_pc' = "while"
    /\ UNCHANGED OtherThanBm

\* one pass of while time.time() - start < max_time: elapsed, remaining1/2,
\* current_rpm1/2, setRPM(current_rpm1, current_rpm2), getDist(); d ms pass
bm_iteration(d) ==
    /\ bm_pc = "while"
    /\ bm_call.now < Max(bm_call.time1, bm_call.time2)
    /\ LET elapsed == bm_call.now
       IN bm_last' = BmSent(bm_call.connected, "loop", elapsed,
                            CurrentRpm(bm_call.rpm1, bm_call.time1 - elapsed),
                            CurrentRpm(bm_call.rpm2, bm_call.time2 - elapsed))
    /\ bm_call' = [bm_call EXCEPT !.now = @ + d]
    /\ UNCHANGED bm_pc
    /\ UNCHANGED OtherThanBm

\* the loop is over: self.stop() -> setRPM(0, 0); return
bm_stop ==
    /\ bm_pc = "while"
    /\ ~(bm_call.now < Max(bm_call.time1, bm_call.time2))
    /\ bm_last' = BmSent(bm_call.connected, "stop", bm_call.now, 0, 0)
    /\ bm_pc' = "returned"
    /\ UNCHANGED bm_call
    /\ UNCHANGED OtherThanBm

BmInit ==
    /\ bm_pc = "idle"
    /\ bm_call = [rpm1 |-> 0, rpm2 |-> 0, time1 |-> 0, time2 |-> 0,
                  connected |-> FALSE, now |-> 0]
    /\ bm_last = [kind |-> "none", elapsed |-> 0, rpm1 |-> 0, rpm2 |-> 0]

BmNext ==
    \/ \E rpm1 \in BmRpms, rpm2 \in BmRpms, time1 \in BmTimes, time2 \in BmTimes,
          connected \in BOOLEAN : setBothMotors(rpm1, rpm2, time1, time2, connected)
    \/ \E d \in BmDelays : bm_iteration(d)
    \/ bm_stop


(***************************************************************************)
(* qr_motor_control.py: main moves the Z axis to every stage position and  *)
(* back home.  Positions and distances are in 1/10 cm.                     *)
(***************************************************************************)
\* OFFSET = 31 (cm)
QR_OFFSET == 310
\* if distance < 0.5: "Already at target position"
NEAR_TENTHS == 5
\* positions typed at the prompt of get_stage_positions
QrInputs == {300, 310, 313, 600, 1000, 1850}

\* get_stage_positions: position = float(user_input);
\* if 31 <= position <= 185: positions.append(position)
get_stage_positions(position) ==
    /\ qr_pc = "input"
    /\ Len(qr.positions) < MaxStages
    /\ qr' = IF 310 <= position /\ position <= 1850
             THEN [qr EXCEPT !.positions = Append(@, position)]
             ELSE qr
    /\ UNCHANGED qr_pc
    /\ UNCHANGED OtherThanQr

\* 'stop' typed; main: if not positions: return; current_position = OFFSET
qr_start ==
    /\ qr_pc = "input"
    /\ qr_pc' = IF qr.positions = <<>> THEN "exit" ELSE "stages"
    /\ qr' = [qr EXCEPT !.current_position = QR_OFFSET]
    /\ UNCHANGED OtherThanQr

\* direction = 1 if target_position > current_position else 0
QrDirection(target_position, current_position) ==
    IF target_position > current_position THEN 1 ELSE 0

\* a distance given to z_axis, UP (1) positive and DOWN (0) negative
Signed(distance, direction) == IF direction = 1 THEN distance ELSE -distance

\* mutant: the target recorded although no move was commanded
PositionAfterStageAlways(target_position, current_position) == target_position

\* current_position = target_position only in the branch that moved
PositionAfterStage(target_position, current_position) ==
    IF Abs(target_position - current_position) < NEAR_TENTHS
    THEN current_position
    ELSE target_position

\* one pass of for i, target_position in enumerate(positions, 1)
qr_stage ==
    /\ qr_pc = "stages"
    /\ qr.stages < Len(qr.positions)
    /\ LET target_position == qr.positions[qr.stages + 1]
           distance == Abs(target_position - qr.current_position)
           direction == QrDirection(target_position, qr.current_position)
       IN qr' = [qr EXCEPT
                   !.current_position =
                       PositionAfterStage(target_position, qr.current_position),
                   !.commanded = IF distance < NEAR_TENTHS
                                 THEN @ ELSE @ + Signed(distance, direction),
                   !.stages = @ + 1,
                   !.moves = IF distance < NEAR_TENTHS THEN @ ELSE @ + 1,
                   !.skipped = IF distance < NEAR_TENTHS THEN @ + 1 ELSE @]
    /\ UNCHANGED qr_pc
    /\ UNCHANGED OtherThanQr

\* the list is exhausted: if current_position != OFFSET: z_axis(...);
\* current_position = OFFSET
qr_home ==
    /\ qr_pc = "stages"
    /\ qr.stages = Len(qr.positions)
    /\ LET distance == Abs(QR_OFFSET - qr.current_position)
           direction == QrDirection(QR_OFFSET, qr.current_position)
       IN qr' = IF qr.current_position # QR_OFFSET
                THEN [qr EXCEPT !.current_position = QR_OFFSET,
                                !.commanded = @ + Signed(distance, direction),
                                !.moves = @ + 1]
                ELSE qr
    /\ qr_pc' = "done"
    /\ UNCHANGED OtherThanQr

\* main: positions = get_stage_positions() starts with positions = []
QrInit ==
    /\ qr_pc = "input"
    /\ qr = [positions |-> <<>>, current_position |-> QR_OFFSET, commanded |-> 0,
             stages |-> 0, moves |-> 0, skipped |-> 0]

QrNext ==
    \/ \E position \in QrInputs : get_stage_positions(position)
    \/ qr_start
    \/ qr_stage
    \/ qr_home


(***************************************************************************)
(* z_gui.py: the Move button runs move_to_position on the Tk thread.  The  *)
(* handler calls self.root.update() before z_axis, which dispatches the    *)
(* events waiting in the queue, a further click on the button included.    *)
(* Positions and distances are in 1/10 cm.                                 *)
(***************************************************************************)
ZG_OFFSET == 310
ZG_MIN_POS == 310
ZG_MAX_POS == 1850
\* what the position entry may hold: nothing (cleared), text that is no
\* number, or a number, given in 1/10 cm
Cleared == [text |-> "", value |-> 0]
ZgEntries == {[text |-> "abc", value |-> 0]}
                 \cup {[text |-> "number", value |-> v] : v \in {300, 313, 600, 1850}}

\* float(self.position_entry.get()) raises ValueError
NotANumber(text) == text.text # "number"

\* the user edits the position entry
zg_entry(text) ==
    /\ zg.requests < MaxRequests
    /\ zg.entry # text
    /\ zg' = [zg EXCEPT !.entry = text]
    /\ UNCHANGED zg_frames
    /\ UNCHANGED OtherThanZg

\* a click on Move is dispatched, by mainloop or by the root.update() of a
\* call under way: move_to_position up to self.root.update()
move_to_position ==
    /\ zg.requests < MaxRequests
    /\ Len(zg_frames) < MaxNesting
    /\ IF zg_frames = <<>> THEN TRUE ELSE zg_frames[Len(zg_frames)].pc = "update"
    /\ zg' = [zg EXCEPT !.requests = @ + 1]
    /\ IF NotANumber(zg.entry)
       THEN UNCHANGED zg_frames
       ELSE LET target_position == zg.entry.value
                difference == target_position - zg.current_position
                distance == Abs(difference)
            IN IF target_position < ZG_MIN_POS \/ target_position > ZG_MAX_POS
               THEN UNCHANGED zg_frames
               ELSE IF distance < NEAR_TENTHS
               THEN UNCHANGED zg_frames
               ELSE zg_frames' = Append(zg_frames,
                                        [pc |-> "update", target_position |-> target_position,
                                         distance |-> distance,
                                         direction |-> IF difference > 0 THEN 1 ELSE 0])
    /\ UNCHANGED OtherThanZg

\* self.root.update() returns: the queue is empty
zg_update ==
    /\ zg_frames # <<>>
    /\ zg_frames[Len(zg_frames)].pc = "update"
    /\ zg_frames' = [zg_frames EXCEPT ![Len(zg_frames)].pc = "z_axis"]
    /\ UNCHANGED zg
    /\ UNCHANGED OtherThanZg

\* z_axis(distance, direction); self.current_position = target_position;
\* labels; self.position_entry.delete(0, tk.END); or except Exception
zg_z_axis(raised) ==
    /\ zg_frames # <<>>
    /\ LET f == zg_frames[Len(zg_frames)]
       IN /\ f.pc = "z_axis"
          /\ zg' = IF raised
                   THEN zg
                   ELSE [zg EXCEPT !.current_position = f.target_position,
                                   !.commanded = @ + Signed(f.distance, f.direction),
                                   !.entry = Cleared]
    /\ zg_frames' = SubSeq(zg_frames, 1, Len(zg_frames) - 1)
    /\ UNCHANGED OtherThanZg

\* ZAxisGUI.__init__: self.current_position = self.OFFSET
ZgInit ==
    /\ zg = [current_position |-> ZG_OFFSET, entry |-> Cleared, commanded |-> 0,
             requests |-> 0]
    /\ zg_frames = <<>>

ZgNext ==
    \/ \E text \in ZgEntries : zg_entry(text)
    \/ move_to_position
    \/ zg_update
    \/ \E raised \in BOOLEAN : zg_z_axis(raised)

(***************************************************************************)
Init == PIInit /\ LockInit /\ RaceInit /\ QuadInit /\ PidInit /\ PcInit /\ SmInit /\ StopInit /\ MainInit /\ ConvInit /\ ArInit /\ RampInit /\ KbInit /\ ZxInit /\ TkInit /\ FrInit /\ BmInit /\ QrInit /\ ZgInit

Init1 == Init /\ variant = "1motor"

SpecPI == Init /\ [][PINext]_vars

SpecLock == Init /\ [][LockNext]_vars

SpecRace == Init1 /\ [][RaceNext]_vars

SpecQuad == Init1 /\ [][QuadNext]_vars

SpecPid == Init1 /\ [][PidNext]_vars

\* one of the three scripts runs
InitDuty ==
    /\ variant \in Variants \cup {"PID_control"}
    /\ PIStart /\ LockInit /\ RaceInit /\ QuadInit /\ PidInit /\ PcInit
    /\ SmInit /\ StopInit /\ MainInit /\ ConvInit /\ ArInit /\ RampInit /\ KbInit /\ ZxInit /\ TkInit /\ FrInit /\ BmInit /\ QrInit /\ ZgInit

DutyNext ==
    \/ variant \in Variants /\ \E level \in {0, 1}, b \in {0, 1} : encoder_callback(level, b)
    \/ variant \in Variants /\ \E dt \in DtSet : rpm_loop(dt)
    \/ variant \in Variants /\ control_loop
    \/ variant \in Variants /\ \E t \in Targets : set_target(t)
    \/ variant = "PID_control" /\ PcNext

SpecDuty == InitDuty /\ [][DutyNext]_vars
SpecMotor == Init1 /\ [][SmNext]_vars
SpecStop == Init1 /\ [][StopNext]_vars
SpecMain == Init1 /\ [][MainNext]_vars
SpecConv == Init1 /\ [][ConvNext]_vars
SpecArduino == Init1 /\ [][ArNext]_vars
SpecRamp == Init1 /\ [][RampNext]_vars
SpecKeys == Init1 /\ [][KbNext]_vars
SpecZAxis == Init1 /\ [][ZxNext]_vars
SpecTicks == Init1 /\ [][TkNext]_vars
SpecFresh == Init1 /\ [][FrNext]_vars
SpecBoth == Init1 /\ [][BmNext]_vars
SpecStages == Init1 /\ [][QrNext]_vars
SpecGui == Init1 /\ [][ZgNext]_vars
Spec == SpecPI

(***************************************************************************)
(* Claims.                                                                 *)
(***************************************************************************)
MaxOut == MAX_DUTY * OutScale

\* C1: in the PI loops of 1motor.py and directionset.py the integral obeys
\* |_integral| <= 1000 both where the output is computed from it and at the
\* end of every control cycle.
C1_IntegralWithinLimit ==
    /\ Abs(integral) <= IntegralLimit
    /\ cycles > 0 => Abs(last.used) <= IntegralLimit

\* the clamp has acted: the proposed integral was beyond the limit
C1_Witness ==
    /\ cycles > 0
    /\ last.before + last.error < -IntegralLimit
    /\ integral = -IntegralLimit

\* C7: the proposed integral is committed only if that does not push the
\* output further beyond a bound it is already at: in a cycle that starts at
\* MAX_DUTY, has error > 0 and saturates again, _integral is left unchanged.
C7_ConditionalIntegration ==
    (/\ cycles > 0
     /\ last.dutyBefore = MaxOut
     /\ last.error > 0
     /\ last.out >= MaxOut)
    => integral = last.before

\* C8: after cycles with error > 0 and the output pinned at MAX_DUTY, the
\* first cycle with error < 0 produces an output strictly below MAX_DUTY.
C8_LeavesSaturationInOneCycle ==
    (satBefore /\ last.error < 0) => duty < MaxOut

\* C2: with _encoder_lock, the sampled counts plus the shared counter always
\* equal the net sum of the +1/-1 the callbacks applied.
C2_NoTickLostLocked == lk_sampled + lk_count = lk_applied

\* a callback waits for the lock while rpm_loop is between its read and its reset
C2_Witness ==
    /\ cb_pc = "acquire"
    /\ lk_lock = "rpm"
    /\ rpm_pc = "reset"
    /\ rpm_local # 0

\* C3: in TeleOp/1motor.py every +1/-1 applied by encoder_cb is included in
\* exactly one sampled count: the sampled counts plus the counter equal the
\* net sum applied.
C3_NoTickLostUnlocked == rc_sampled + rc_count = rc_applied

\* C4: encoder_callback_A changes the count by one sign on every A edge of
\* forward motion and by the opposite sign on every A edge of reverse motion,
\* and a motion followed by its exact reverse returns the count to its start.
C4_DecoderAConsistent ==
    /\ q_last.aedge => q_last.dA = (IF q_last.dir = "F" THEN -1 ELSE 1)
    /\ RoundTrip(q_path) => cntA = 0

\* three transitions forward and back again, ending on an A edge
C4_Witness ==
    /\ Len(q_path) >= 6
    /\ RoundTrip(q_path)
    /\ q_path[1] = q_path[2] /\ q_path[2] = q_path[3]
    /\ q_last.aedge

\* C5: the decoder of 1motor.py counts the net signed number of A
\* transitions: n A edges in one direction change the count by n in
\* magnitude, and a motion followed by its reverse returns it to its start.
C5_SingleChannelNetCount ==
    /\ OneDirection(q_path) => Abs(cnt1) = q_aedges
    /\ RoundTrip(q_path) => cnt1 = 0

\* C6: with encoder_cb on every edge of A and B, one full quadrature cycle
\* (four edges) in one direction changes encoder_count by 4 in magnitude.
C6_FourTimesResolution ==
    (Len(q_path) = 4 /\ OneDirection(q_path)) => Abs(cnt4) = 4

\* C9: after every PIDController.update the integral accumulator lies within
\* [-integral_limit, +integral_limit] for a fixed finite integral_limit (the
\* limit the repository uses is max_int = 1000 RPM*s).
C9_PidIntegralBounded == Abs(pid_integral) <= max_int * 1000

\* C10: PIDController has two states.  The first update after construction
\* or reset uses dt = SAMPLE_TIME and seeds prev_time and prev_error; every
\* later update uses the measured time since the previous call, or
\* SAMPLE_TIME when that is <= 0.  The dt used is always > 0 and the
\* derivative never divides by zero.
C10_PidDtPositive ==
    /\ ~pid_raised
    /\ pid_prev_time = <<>> => (pid_integral = 0 /\ pid_prev_error = 0)
    /\ pid_calls > 0 =>
          /\ pid_last.dt > 0
          /\ pid_last.first => pid_last.dt = SAMPLE_TIME_MS
          /\ ~pid_last.first =>
                pid_last.dt = (IF pid_last.elapsed > 0 THEN pid_last.elapsed
                               ELSE SAMPLE_TIME_MS)
          /\ pid_prev_time # <<>> =>
                (pid_prev_time = <<pid_last.now>> /\ pid_prev_error = pid_last.error)

\* a later update measured a negative interval and used SAMPLE_TIME
C10_Witness ==
    /\ pid_calls >= 2
    /\ ~pid_last.first
    /\ pid_last.elapsed < 0
    /\ pid_last.dt = SAMPLE_TIME_MS
    /\ pid_last.error # 0

\* C11: in rpm_loop of 1motor.py a sample whose measured dt is <= 0 leaves
\* _rpm unchanged and raises nothing; the loop goes on to the next sample.
C11_NonPositiveDtSkipped ==
    /\ rpm_pc # "dead"
    /\ (variant = "1motor" /\ lk_samples > 0 /\ lk_last.dt <= 0
            /\ rpm_pc \in {"sleep", "read", "reset", "release"})
          => lk_rpm = lk_last.before

\* a sample with ticks in it measured dt = 0 after a speed had been estimated
C11_Witness ==
    /\ variant = "1motor"
    /\ rpm_pc = "sleep"
    /\ lk_samples = 2
    /\ lk_last.dt = 0
    /\ rpm_local # 0
    /\ lk_rpm # 0

\* C12: in rpm_task of TeleOp/1motor.py the speed computation never divides
\* by zero and never raises; when dt <= 0 the update is skipped and rpm keeps
\* its previous value.
C12_RpmTaskGuardsDt ==
    /\ task_pc # "dead"
    /\ (task_pc = "sleep" /\ rc_samples > 0 /\ task_dt <= 0) => rc_rpm = rc_rpm_before
\* C13: every duty a control loop hands to the PWM hardware is legal: in
\* 1motor.py and directionset.py the duty percentage is in
\* [MIN_DUTY, MAX_DUTY] = [0, 100] and the hardware_PWM integer is in
\* 0..1000000; in PID_control.py pwm_val is in 0..255 and the duty cycle is
\* in 0..1000000.
C13_DutyLegal ==
    /\ MIN_DUTY = 0 /\ MAX_DUTY = 100
    /\ duty >= MIN_DUTY * OutScale /\ duty <= MAX_DUTY * OutScale
    /\ pwm \in 0..1000000
    /\ pc_pwm_val \in 0..255
    /\ pc_duty_cycle \in 0..1000000

\* the PI loop clamped a negative output to 0, or PID_control.py capped
\* pwm_val at 255 and issued the full duty cycle
C13_Witness ==
    \/ variant \in Variants /\ cycles > 0 /\ last.out < 0 /\ duty = 0 /\ pwm = 0
    \/ variant = "PID_control" /\ pc_cycles > 0 /\ Abs(pc_u) > 25500
          /\ pc_pwm_val = 255 /\ pc_duty_cycle = 1000000

Min(a, b) == IF a < b THEN a ELSE b

\* C14: set_motor of dual_pid_mdd20a.py drives DIR high exactly when the
\* command is >= 0 and low otherwise, and writes duty = min(|command|, 100),
\* which is always in [0, 100].
C14_SetMotorMapping ==
    sm_called =>
        /\ (sm_dir = "HIGH") <=> (sm_command >= 0)
        /\ (sm_dir = "LOW") <=> (sm_command < 0)
        /\ sm_duty = Min(Abs(sm_command), 100)
        /\ sm_duty >= 0 /\ sm_duty <= 100

\* a reverse command beyond the range was saturated
C14_Witness ==
    sm_called /\ sm_command < -100 /\ sm_dir = "LOW" /\ sm_duty = 100

\* C15: the actuator mapping applies a minimum-effective-duty floor after
\* the clamp: a command with 0 < |command| < min_duty is emitted as duty
\* min_duty (magnitude 5 with min_duty 40 gives 40), and a command of
\* exactly 0 is emitted as duty 0.
C15_MinDutyFloor ==
    sm_called =>
        /\ (0 < Abs(sm_command) /\ Abs(sm_command) < 40) => sm_duty = 40
        /\ sm_command = 0 => sm_duty = 0

\* C16: on shutdown of the threaded controllers the last actuator command
\* before the process exits is zero duty with the direction output released:
\* once the cleanup code has commanded zero duty no control thread issues a
\* later non-zero PWM command, whatever the interleaving.
C16_ZeroDutyStaysLast ==
    /\ st_zeroed => st_pwm = 0
    /\ st_main_pc = "exited" => st_dir = 0

\* C17: in 1motor.py (and directionset.py) after SIGINT the program runs
\* cleanup and exits within a bounded wait, without needing another line
\* from the operator: once the handler has run, the main thread can always
\* take its next step towards exit by itself.
C17_ExitNeedsNoInput ==
    (mn_sigint /\ mn_main_pc # "exited") => ENABLED MainThreadStep

\* C18: in 1motor.py every control_loop cycle that computes its error after
\* an 's <rpm>' assignment uses the target assigned last, never an older one.
C18_NewSetpointUsed ==
    mn_iters > 0 => mn_err.used = mn_assigned[mn_err.n]

\* a cycle computed its error after the operator had changed the setpoint
C18_Witness ==
    /\ mn_iters > 1
    /\ mn_ctl_pc = "set"
    /\ Len(mn_assigned) > 1
    /\ mn_err.n = Len(mn_assigned)
    /\ mn_err.used # mn_start_target

\* C19: for every tick count and every dt > 0, counts_to_rpm of
\* dual_pid_mdd20a.py and rpm_loop of 1motor.py produce exactly
\* (ticks / counts_per_revolution) / dt * 60, with the sign of the ticks;
\* 100 ticks at 2704 counts per revolution in 0.1 s are about 22.19 RPM.
C19_RawSpeedFormula ==
    /\ (cv_fn # "none" /\ cv_dt > 0) =>
          /\ cv_result * ConvCpr(cv_fn) * cv_dt = cv_counts * 60 * 1000 * RpmScale
          /\ cv_counts < 0 => cv_result < 0
          /\ cv_counts > 0 => cv_result > 0
          /\ cv_counts = 0 => cv_result = 0
    /\ (RawRpm(100, 2704, 100) * 100 + RpmScale \div 2) \div RpmScale = 2219

\* a negative count converted over a 50 ms interval
C19_Witness ==
    cv_fn = "counts_to_rpm" /\ cv_counts < 0 /\ cv_dt = 50 /\ cv_result < 0

C22_StopImmediateHolds ==
    rm_stopped => rm_duty = 0

\* C29: ramp_to_speed stops the ongoing ramp before starting a new one: once
\* the new ramp thread has been started, the previous thread writes neither
\* current_speed nor the duty any more, whatever the interleaving, the join
\* timing out included.
C29_OneRampWriter ==
    ~rm_stale_write

\* C30: a ramp that is not interrupted ends exactly at its target: once the
\* ramp thread has finished without a stop request, current_speed and the
\* last duty written equal target_speed; every duty written lay between
\* the ramp's start and its target, hence in [0, 100].
C30_RampEndsAtTarget ==
    /\ \A i \in RampThreads :
          (rm_th[i].pc = "done" /\ rm_th[i].completed /\ i = rm_ramp_thread
              /\ rm_main = "idle" /\ rm_calls = i /\ rm_stops = 0)
          => (rm_current_speed = rm_target_speed /\ rm_duty = rm_target_speed)
    /\ rm_in_range
    /\ rm_duty >= 0 /\ rm_duty <= 100 * SpeedScale

\* C23: in motor_keyboard_control.py, when a movement key is released and
\* no other movement key is held, both motors are ramped down and their duty
\* reaches 0 if no further key is pressed: once the ramp threads have
\* nothing left to do, both duties are 0.
C23_ReleaseStopsMotors ==
    (kb_stop_all /\ ~ENABLED KbThreadStep) => \A m \in KbMotors : kb_m[m].duty = 0

\* C24: starting at the bottom, after any sequence of completed
\* move_to_level calls the carriage is at the preset of the last requested
\* level, (level - 1) * total_height_cm / 4 above the bottom.
C24_LevelReached ==
    (zx_level # 0 /\ ~zx_moving /\ ~zx_busy_call /\ ~zx_other)
        => zx_height = ((zx_level - 1) * total_height_cm) \div 4

\* C25: PIDController.update of dual_pid_mdd20a.py returns a non-negative
\* control effort for every target magnitude >= 0 and measured
\* magnitude >= 0.
C25_EffortNonNegative ==
    (pid_calls > 0 /\ ~pid_raised) => pid_last.output >= 0

\* C26: the encoder lock is held only for the counter increment/decrement
\* and for the read-and-reset: a thread that holds the lock is at one of
\* those counter accesses, not at the GPIO read, the sleep or the RPM
\* arithmetic.
C26_LockOnlyAroundCounter ==
    /\ lk_lock = "cb" => cb_pc \in {"load", "store", "release"}
    /\ lk_lock = "rpm" => rpm_pc \in {"read", "reset", "release"}
    /\ lk_lock \in {"free", "cb", "rpm"}

\* the sampler holds the lock at the reset while a callback that has done
\* its GPIO read waits for it
C26_Witness ==
    lk_lock = "rpm" /\ rpm_pc = "reset" /\ cb_pc = "acquire" /\ lk_edges > 1

\* C27: for the same edges and sampling instants the per-window counts of
\* the read-and-reset convention equal the per-window deltas of the
\* running-counter convention, and in both the window values together with
\* the ticks not yet sampled sum to the net number of ticks.
C27_ConventionsAgree ==
    /\ tk_pc = "wait" => tk_deltas = tk_counts
    /\ tk_pc = "delta" => tk_deltas = SubSeq(tk_counts, 1, Len(tk_counts) - 1)
    /\ SeqSum(tk_counts) + tk_encoder_count = tk_net
    /\ tk_pc = "wait" =>
          SeqSum(tk_deltas) + (tk_running_count - tk_prev_encoder_count) = tk_net

\* three windows sampled, with ticks in both directions and a non-zero window
C27_Witness ==
    /\ tk_pc = "wait" /\ Len(tk_deltas) = MaxWindows
    /\ \E i \in 1..Len(tk_deltas) : tk_deltas[i] > 1
    /\ \E i \in 1..Len(tk_deltas) : tk_deltas[i] < 0

\* C28: in src/1motor.py every control_loop iteration computes its error
\* from a speed sample that rpm_loop produced since the previous
\* control_loop iteration: the sample read is one rpm_loop stored, and it is
\* newer than the one the previous iteration read.
C28_FreshSamplePerCycle ==
    fr_cycles > 0 => (fr_used > 0 /\ fr_used > fr_prev_used)

\* C31: Motor.stop_smooth of z_module.py / zdirection_control.py changes
\* only the speed: from the stop_smooth call until the duty has reached 0
\* the direction output is what it was before the call.
C31_StopSmoothKeepsDirection ==
    (rm_arg.smooth /\ rm_duty > 0) => rm_direction = rm_arg.before

\* C32: ZAxisController runs at most one move at a time: at most one
\* _execute_move is between its start and its stop_smooth call, and only
\* while moving is True; a call made while moving is True starts no thread;
\* moving is False when an _execute_move ends, also after a motor call raised.
C32_OneMoveAtATime ==
    /\ [](/\ Cardinality({i \in ZxThreads : ZxActive(i)}) <= 1
          /\ \A i \in ZxThreads : ZxActive(i) => zx_moving)
    /\ [][ /\ (zx_moving /\ zx_calls' # zx_calls) => zx_th' = zx_th
           /\ \A i \in ZxThreads :
                 (zx_th[i].pc # "done" /\ zx_th'[i].pc = "done") => ~zx_moving' ]_vars

\* a second move runs after a first one whose motor call raised, and a call
\* was turned away during a move
C32_Witness ==
    /\ zx_other /\ zx_busy_call
    /\ zx_th[1].pc = "done" /\ zx_th[2].pc = "sleep"

C34_ReturnsHome ==
    /\ qr.current_position = QR_OFFSET + qr.commanded
    /\ qr_pc = "done" => (qr.commanded = 0 /\ qr.current_position = QR_OFFSET)

\* a full list of stages has been run, one of them near enough to be
\* skipped, and the axis was brought back by the home move
C34_Witness ==
    /\ qr_pc = "done" /\ qr.stages = MaxStages
    /\ qr.moves = MaxStages /\ qr.skipped = 1

\* C35: in z_gui.py, after any sequence of move_to_position requests the
\* tracked current_position is within [MIN_POS, MAX_POS] and equals OFFSET
\* plus the signed sum of the distances actually commanded through z_axis.
C35_TrackedPosition ==
    /\ zg.current_position >= ZG_MIN_POS /\ zg.current_position <= ZG_MAX_POS
    /\ zg.current_position = ZG_OFFSET + zg.commanded
====
